---- MODULE Spec2Model ----
(***************************************************************************)
(* A model of the bounded-concurrency execution core: the AsyncGate (FIFO  *)
(* admission with timeout and cancellation), its backpressure iterator,    *)
(* the Retrier composed with a gate, and the CircuitBreaker.               *)
(***************************************************************************)
EXTENDS Integers, Sequences, FiniteSets, TLC

\* ------------------------------------------------------------------ bounds

MaxCapacity == 2      \* gate capacities 1..MaxCapacity
MaxCalls == 4         \* acquire / run calls issued on one gate
NumSignals == 1       \* cancel signals the callers share
MaxReleaseCalls == 2  \* invocations of one release token
MaxItems == 2         \* items of the upstream sequence of a wrapped iterator
MaxAttempts == 3      \* the retrier's maxAttempts ranges over 1..MaxAttempts
MaxThreshold == 2     \* failureThreshold and successThreshold range over 1..MaxThreshold
MaxResetTimeout == 1  \* resetTimeout ranges over 0..MaxResetTimeout
MaxTime == 2          \* the clock runs from 0 to MaxTime
MaxForces == 1        \* forceState calls on one breaker
MaxBreakerCalls == 4  \* CircuitBreaker.run calls on one breaker
NumContexts == 1      \* contexts a store can hold

Null == 0             \* a null node reference
NoSignal == 0         \* options.signal is undefined
NullTime == -1        \* lastFailureAt is null
NoContext == 0        \* store.getStore() is undefined

Calls == 1..MaxCalls
Signals == 1..NumSignals
BCalls == 1..MaxBreakerCalls

\* options.timeout: undefined, or a number (negative, zero, positive)
Timeouts ==
    {[defined |-> FALSE, ms |-> 0]} \cup {[defined |-> TRUE, ms |-> m] : m \in {-1, 0, 1}}

VARIABLES
    g,          \* the gate: concurrency, running, head, tail, the wait nodes, timers, listeners, tokens
    aborted,    \* aborted[s]: the cancel signal s has fired
    kind,       \* kind[c]: "none" (not issued), "acquire" or "run"
    body,       \* body[c]: progress of the fn of a Gate.run call
    order,      \* the calls whose fn body has started, in the order they started
    nIssued,    \* the number of calls issued so far
    relCalls,   \* relCalls[c]: invocations of call c's release token
    relThrows,  \* relThrows[c]: invocations of call c's release token that threw
    it,         \* the iterator gate.wrap(source) returned: pendingRelease, done, and its call in flight
    src,        \* the upstream sequence: its length, where it throws, how far it was pulled
    rt,         \* the retryWithGate task: its position, attempt, token and outcome
    cb,         \* the circuit breaker's fields
    now,        \* Date.now()
    bc,         \* bc[c]: the CircuitBreaker.run call c: its position, captured state and error
    hist,       \* history: the forceState calls made, the failures counted by hand
    cx          \* the context store's users: a ContextCarrier, or the calls of a context-aware gate

gateVars == <<g, aborted>>
callVars == <<kind, body, order, nIssued, relCalls, relThrows>>
wrapVars == <<it, src>>
cbVars == <<cb, now, bc, hist>>
extVars == <<it, src, rt, cb, now, bc, hist, cx>>   \* what the plain callers of a gate leave alone
vars == <<g, aborted, kind, body, order, nIssued, relCalls, relThrows, it, src, rt, cb, now, bc, hist, cx>>

\* ------------------------------------------------------------ the AsyncGate

\* new AsyncGate({concurrency}) with the bookkeeping of the acquisitions ids
NewGate(concurrency, ids) ==
    [ concurrency |-> concurrency,
      running     |-> 0,
      head        |-> Null,
      tail        |-> Null,
      prev        |-> [n \in ids |-> Null],
      next        |-> [n \in ids |-> Null],
      settled     |-> [n \in ids |-> FALSE],
      timer       |-> [n \in ids |-> FALSE],      \* timeoutId armed
      listener    |-> [n \in ids |-> NoSignal],   \* signal onAbort is registered on
      token       |-> [n \in ids |-> "none"],     \* the release closure: none, live, released
      result      |-> [n \in ids |-> "none"] ]    \* the acquire promise: none, pending, granted, TimeoutError, AbortError

\* createRelease(): a fresh closure with released = false
createRelease(gt, n) == [gt EXCEPT !.token[n] = "live"]

enqueue(gt, n) ==
    IF gt.tail = Null
    THEN [gt EXCEPT !.head = n, !.tail = n]
    ELSE [gt EXCEPT !.prev[n] = gt.tail, !.next[gt.tail] = n, !.tail = n]

\* the mutant of dequeue: serves the tail (LIFO)
dequeueTail(gt) ==
    LET node == gt.tail IN
    IF node = Null THEN [gate |-> gt, node |-> Null]
    ELSE LET g1 == [gt EXCEPT !.tail = gt.prev[node]]
             g2 == IF g1.tail = Null THEN [g1 EXCEPT !.head = Null]
                   ELSE [g1 EXCEPT !.next[g1.tail] = Null]
         IN [gate |-> [g2 EXCEPT !.prev[node] = Null], node |-> node]

dequeue(gt) ==
    LET node == gt.head IN
    IF node = Null THEN [gate |-> gt, node |-> Null]
    ELSE LET g1 == [gt EXCEPT !.head = gt.next[node]]
             g2 == IF g1.head = Null THEN [g1 EXCEPT !.tail = Null]
                   ELSE [g1 EXCEPT !.prev[g1.head] = Null]
         IN [gate |-> [g2 EXCEPT !.next[node] = Null], node |-> node]


unlink(gt, n) ==
    LET g1 == IF gt.prev[n] # Null THEN [gt EXCEPT !.next[gt.prev[n]] = gt.next[n]] ELSE gt
        g2 == IF g1.next[n] # Null THEN [g1 EXCEPT !.prev[g1.next[n]] = g1.prev[n]] ELSE g1
        g3 == IF g2.head = n THEN [g2 EXCEPT !.head = g2.next[n]] ELSE g2
        g4 == IF g3.tail = n THEN [g3 EXCEPT !.tail = g3.prev[n]] ELSE g3
    IN [g4 EXCEPT !.prev[n] = Null, !.next[n] = Null]

\* the mutant of cleanup: the node stays in the wait list
cleanupNoUnlink(gt, n) ==
    [gt EXCEPT !.listener[n] = NoSignal, !.timer[n] = FALSE]

\* cleanup(): unlink, remove the abort listener, clear the timer
cleanup(gt, n) ==
    [unlink(gt, n) EXCEPT !.listener[n] = NoSignal, !.timer[n] = FALSE]

\* the wrapped node.resolve(release) of the slow path
resolveNode(gt, n) ==
    IF gt.settled[n] THEN gt
    ELSE [gt EXCEPT !.settled[n] = TRUE, !.timer[n] = FALSE,
                    !.listener[n] = NoSignal, !.result[n] = "granted"]

\* the mutant of dispatch: a freed slot is not handed to the head of the wait list
dispatchNever(gt) == gt

dispatch(gt) ==
    IF gt.running >= gt.concurrency \/ gt.head = Null THEN gt
    ELSE LET d == dequeue(gt) IN
         IF d.node # Null
         THEN resolveNode(createRelease([d.gate EXCEPT !.running = @ + 1], d.node), d.node)
         ELSE d.gate

\* the mutant of the release closure: no released guard
releaseUnguarded(gt, n) ==
    [gate |-> dispatch([gt EXCEPT !.token[n] = "released", !.running = @ - 1]), threw |-> FALSE]

\* the mutant of the release closure: the freed slot is not dispatched
releaseNoDispatch(gt, n) ==
    IF gt.token[n] = "released" THEN [gate |-> gt, threw |-> TRUE]
    ELSE [gate |-> [gt EXCEPT !.token[n] = "released", !.running = @ - 1], threw |-> FALSE]

\* the closure createRelease() returns, invoked
release(gt, n) ==
    IF gt.token[n] = "released" THEN [gate |-> gt, threw |-> TRUE]
    ELSE [gate |-> dispatch([gt EXCEPT !.token[n] = "released", !.running = @ - 1]),
          threw |-> FALSE]

\* the mutant of onTimeout: no settled guard
onTimeoutUnguarded(gt, n) ==
    [cleanup([gt EXCEPT !.settled[n] = TRUE], n) EXCEPT !.result[n] = "TimeoutError"]

\* the setTimeout callback of the slow path
onTimeout(gt, n) ==
    IF gt.settled[n] THEN gt
    ELSE [cleanup([gt EXCEPT !.settled[n] = TRUE], n) EXCEPT !.result[n] = "TimeoutError"]

\* the mutant of onAbort: rejects without cleanup
onAbortNoCleanup(gt, n) ==
    IF gt.settled[n] THEN gt
    ELSE [gt EXCEPT !.settled[n] = TRUE, !.result[n] = "AbortError"]

\* the abort listener of the slow path
onAbort(gt, n) ==
    IF gt.settled[n] THEN gt
    ELSE [cleanup([gt EXCEPT !.settled[n] = TRUE], n) EXCEPT !.result[n] = "AbortError"]

\* the mutant of acquire: a free slot is taken before the signal is looked at
acquireAbortLate(gt, n, timeout, signal, ab) ==
    IF gt.running < gt.concurrency
    THEN [createRelease([gt EXCEPT !.running = @ + 1], n) EXCEPT !.result[n] = "granted"]
    ELSE IF signal # NoSignal /\ ab[signal] THEN [gt EXCEPT !.result[n] = "AbortError"]
    ELSE LET g1 == enqueue([gt EXCEPT !.result[n] = "pending"], n)
             g2 == [g1 EXCEPT !.listener[n] = signal]
         IN IF timeout.defined /\ timeout.ms > 0 THEN [g2 EXCEPT !.timer[n] = TRUE] ELSE g2

\* the mutant of acquire: the fast path admits at running = concurrency
acquireOffByOne(gt, n, timeout, signal, ab) ==
    IF signal # NoSignal /\ ab[signal] THEN [gt EXCEPT !.result[n] = "AbortError"]
    ELSE IF gt.running <= gt.concurrency
    THEN [createRelease([gt EXCEPT !.running = @ + 1], n) EXCEPT !.result[n] = "granted"]
    ELSE LET g1 == enqueue([gt EXCEPT !.result[n] = "pending"], n)
             g2 == [g1 EXCEPT !.listener[n] = signal]
         IN IF timeout.defined /\ timeout.ms > 0 THEN [g2 EXCEPT !.timer[n] = TRUE] ELSE g2

\* the mutant of acquire: a timer is armed for any timeout that was given, 0 included
acquireTimerIfDefined(gt, n, timeout, signal, ab) ==
    IF signal # NoSignal /\ ab[signal] THEN [gt EXCEPT !.result[n] = "AbortError"]
    ELSE IF gt.running < gt.concurrency
    THEN [createRelease([gt EXCEPT !.running = @ + 1], n) EXCEPT !.result[n] = "granted"]
    ELSE LET g1 == enqueue([gt EXCEPT !.result[n] = "pending"], n)
             g2 == [g1 EXCEPT !.listener[n] = signal]
         IN IF timeout.defined THEN [g2 EXCEPT !.timer[n] = TRUE] ELSE g2

\* acquire({timeout, signal}), up to its first suspension
acquire(gt, n, timeout, signal, ab) ==
    IF signal # NoSignal /\ ab[signal] THEN [gt EXCEPT !.result[n] = "AbortError"]
    ELSE IF gt.running < gt.concurrency
    THEN [createRelease([gt EXCEPT !.running = @ + 1], n) EXCEPT !.result[n] = "granted"]
    ELSE LET g1 == enqueue([gt EXCEPT !.result[n] = "pending"], n)
             g2 == [g1 EXCEPT !.listener[n] = signal]
         IN IF timeout.defined /\ timeout.ms > 0 THEN [g2 EXCEPT !.timer[n] = TRUE] ELSE g2

\* signal.dispatchEvent('abort'): the listeners run in registration order
RECURSIVE fireListeners(_, _, _)
fireListeners(gt, s, todo) ==
    IF todo = {} THEN gt
    ELSE LET n == CHOOSE x \in todo : \A y \in todo : x <= y IN
         fireListeners(IF gt.listener[n] = s THEN onAbort(gt, n) ELSE gt, s, todo \ {n})

\* the wait list, read from head along next
RECURSIVE WalkFrom(_, _, _)
WalkFrom(gt, n, fuel) ==
    IF n = Null \/ fuel = 0 THEN <<>> ELSE <<n>> \o WalkFrom(gt, gt.next[n], fuel - 1)

WaitList(gt) == WalkFrom(gt, gt.head, Cardinality(DOMAIN gt.next))

InList(gt, n) == \E i \in 1..Len(WaitList(gt)) : WaitList(gt)[i] = n

\* the number of release tokens handed out and not yet invoked
LiveTokens(gt) == Cardinality({n \in DOMAIN gt.token : gt.token[n] = "live"})

\* ------------------------------------------------- callers of one gate

\* no wrapped iterator exists
WrapIdle ==
    /\ it = [pc |-> "none"]
    /\ src = [len |-> 0]

\* no retryWithGate task exists
RetryIdle == rt = [pc |-> "none"]

\* no context store is in use
CtxIdle == cx = [pc |-> "none"]

\* no circuit breaker exists
BreakerIdle ==
    /\ cb = [state |-> "none"]
    /\ now = 0
    /\ bc = <<>>
    /\ hist = [forces |-> 0]

CallersInit ==
    /\ g \in {NewGate(c, Calls) : c \in 1..MaxCapacity}
    /\ aborted = [s \in Signals |-> FALSE]
    /\ kind = [c \in Calls |-> "none"]
    /\ body = [c \in Calls |-> "none"]
    /\ order = <<>>
    /\ nIssued = 0
    /\ relCalls = [c \in Calls |-> 0]
    /\ relThrows = [c \in Calls |-> 0]

\* a caller issues gate.acquire(options) or gate.run(fn, options)
Acquire(k, timeout, signal) ==
    /\ nIssued < MaxCalls
    /\ LET c == nIssued + 1 IN
          /\ g' = acquire(g, c, timeout, signal, aborted)
          /\ kind' = [kind EXCEPT ![c] = k]
    /\ nIssued' = nIssued + 1
    /\ UNCHANGED <<aborted, body, order, relCalls, relThrows, extVars>>

\* the holder of a token invokes it (a first or a repeated time)
ReleaseToken(c) ==
    /\ kind[c] = "acquire"
    /\ g.result[c] = "granted"
    /\ relCalls[c] < MaxReleaseCalls
    /\ LET r == release(g, c) IN
          /\ g' = r.gate
          /\ relThrows' = [relThrows EXCEPT ![c] = IF r.threw THEN @ + 1 ELSE @]
    /\ relCalls' = [relCalls EXCEPT ![c] = @ + 1]
    /\ UNCHANGED <<aborted, kind, body, order, nIssued, extVars>>

\* the timer armed by a queued acquire expires
TimerExpiry(c) ==
    /\ g.timer[c]
    /\ g' = onTimeout([g EXCEPT !.timer[c] = FALSE], c)
    /\ UNCHANGED <<aborted, kind, body, order, nIssued, relCalls, relThrows, extVars>>

\* controller.abort(): the signal fires and its listeners run
Abort(s) ==
    /\ ~aborted[s]
    /\ aborted' = [aborted EXCEPT ![s] = TRUE]
    /\ g' = fireListeners(g, s, DOMAIN g.listener)
    /\ UNCHANGED <<kind, body, order, nIssued, relCalls, relThrows, extVars>>

\* the mutant of RunBodyStart: fn is invoked however the acquire settled
RunBodyStartUnadmitted(c) ==
    /\ kind[c] = "run"
    /\ g.result[c] \in {"granted", "TimeoutError", "AbortError"}
    /\ body[c] = "none"
    /\ body' = [body EXCEPT ![c] = "started"]
    /\ order' = Append(order, c)
    /\ UNCHANGED <<g, aborted, kind, nIssued, relCalls, relThrows, extVars>>

\* Gate.run resumes after its acquire and invokes fn
RunBodyStart(c) ==
    /\ kind[c] = "run"
    /\ g.result[c] = "granted"
    /\ body[c] = "none"
    /\ body' = [body EXCEPT ![c] = "started"]
    /\ order' = Append(order, c)
    /\ UNCHANGED <<g, aborted, kind, nIssued, relCalls, relThrows, extVars>>

\* the mutant of RunBodyEnd: the release follows fn instead of sitting in a finally
RunBodyEndNoFinally(c, outcome) ==
    /\ body[c] = "started"
    /\ body' = [body EXCEPT ![c] = outcome]
    /\ g' = IF outcome = "returned" THEN release(g, c).gate ELSE g
    /\ relCalls' = [relCalls EXCEPT ![c] = IF outcome = "returned" THEN @ + 1 ELSE @]
    /\ UNCHANGED <<aborted, kind, order, nIssued, relThrows, extVars>>

\* fn settles (returns or throws) and the finally of Gate.run releases
RunBodyEnd(c, outcome) ==
    /\ body[c] = "started"
    /\ body' = [body EXCEPT ![c] = outcome]
    /\ LET r == release(g, c) IN
          /\ g' = r.gate
          /\ relThrows' = [relThrows EXCEPT ![c] = IF r.threw THEN @ + 1 ELSE @]
    /\ relCalls' = [relCalls EXCEPT ![c] = @ + 1]
    /\ UNCHANGED <<aborted, kind, order, nIssued, extVars>>

GateInit == CallersInit /\ WrapIdle /\ RetryIdle /\ BreakerIdle /\ CtxIdle

GateNext ==
    \/ \E k \in {"acquire", "run"}, t \in Timeouts, s \in Signals \cup {NoSignal} :
          Acquire(k, t, s)
    \/ \E c \in Calls : ReleaseToken(c)
    \/ \E c \in Calls : TimerExpiry(c)
    \/ \E s \in Signals : Abort(s)
    \/ \E c \in Calls : RunBodyStart(c)
    \/ \E c \in Calls, o \in {"returned", "threw"} : RunBodyEnd(c, o)

GateSpec == GateInit /\ [][GateNext]_vars

\* ------------------------------------------- gate.wrap(source): the iterator

NoTimeout == [defined |-> FALSE, ms |-> 0]

\* wrap(): pendingRelease = null, done = false; no call in flight
NewIterator ==
    [ pending   |-> Null,      \* pendingRelease: the token held for the item handed out
      done      |-> FALSE,
      pc        |-> "idle",    \* idle, acquiring (awaiting gate.acquire), pulling (awaiting iter.next)
      cur       |-> Null,      \* the acquisition of the next() in flight
      acq       |-> 0,         \* gate.acquire calls made
      rel       |-> 0,         \* release tokens invoked
      end       |-> "none",    \* how the iteration ended
      last      |-> "none",    \* what the last settled call reported: item, done, error
      call      |-> "none",    \* the method the consumer called last: next, return, throw
      delivered |-> <<>>,      \* the items handed to the consumer
      fault     |-> FALSE ]    \* a release invoked by the iterator threw

\* an upstream async generator of len items that throws on pull errAt (0: never)
Sources ==
    { [len |-> l, errAt |-> e, pos |-> 0, finished |-> FALSE, pulls |-> 0] :
        l \in 0..MaxItems, e \in 0..(MaxItems + 1) }

\* what the upstream answers to its next pull
Upstream(sr) ==
    IF sr.finished THEN "done"
    ELSE IF sr.pos + 1 = sr.errAt THEN "throw"
    ELSE IF sr.pos + 1 > sr.len THEN "done"
    ELSE "value"

\* the mutant of releasePending: drops the token without invoking it
releasePendingDrop(gt, itr) ==
    [gate |-> gt, it |-> [itr EXCEPT !.pending = Null]]

\* releasePending(): invoke and forget the held token
releasePending(gt, itr) ==
    IF itr.pending # Null
    THEN LET r == release(gt, itr.pending) IN
         IF r.threw THEN [gate |-> r.gate, it |-> [itr EXCEPT !.fault = TRUE]]
         ELSE [gate |-> r.gate, it |-> [itr EXCEPT !.pending = Null, !.rel = @ + 1]]
    ELSE [gate |-> gt, it |-> itr]

WrapInit ==
    /\ CallersInit
    /\ it = NewIterator
    /\ src \in Sources
    /\ RetryIdle
    /\ BreakerIdle
    /\ CtxIdle

\* the mutant of ItNext: no done check before the acquire
ItNextNoDoneCheck ==
    /\ it.pc = "idle"
    /\ nIssued < MaxCalls
    /\ LET rp == releasePending(g, [it EXCEPT !.call = "next"])
           c  == nIssued + 1
       IN /\ g' = acquire(rp.gate, c, NoTimeout, NoSignal, aborted)
          /\ it' = [rp.it EXCEPT !.cur = c, !.pc = "acquiring", !.acq = @ + 1]
          /\ kind' = [kind EXCEPT ![c] = "iter"]
          /\ nIssued' = nIssued + 1
    /\ UNCHANGED <<aborted, body, order, relCalls, relThrows, src, rt, cbVars, cx>>

\* the consumer calls next(): release the previous slot, then acquire one
ItNext ==
    /\ it.pc = "idle"
    /\ it.done \/ nIssued < MaxCalls
    /\ LET rp == releasePending(g, [it EXCEPT !.call = "next"]) IN
          IF rp.it.fault
          THEN g' = rp.gate /\ it' = [rp.it EXCEPT !.last = "error"]
               /\ UNCHANGED <<kind, nIssued>>
          ELSE IF rp.it.done
          THEN g' = rp.gate /\ it' = [rp.it EXCEPT !.last = "done"]
               /\ UNCHANGED <<kind, nIssued>>
          ELSE LET c == nIssued + 1 IN
               /\ g' = acquire(rp.gate, c, NoTimeout, NoSignal, aborted)
               /\ it' = [rp.it EXCEPT !.cur = c, !.pc = "acquiring", !.acq = @ + 1]
               /\ kind' = [kind EXCEPT ![c] = "iter"]
               /\ nIssued' = nIssued + 1
    /\ UNCHANGED <<aborted, body, order, relCalls, relThrows, src, rt, cbVars, cx>>

\* the mutant of ItPull: upstream is pulled without waiting for the slot
ItPullEager ==
    /\ it.pc = "acquiring"
    /\ it' = [it EXCEPT !.pc = "pulling"]
    /\ src' = [src EXCEPT !.pulls = @ + 1]
    /\ UNCHANGED <<g, aborted, kind, body, order, nIssued, relCalls, relThrows, rt, cbVars, cx>>

\* the mutant of ItPull: upstream is pulled twice and the first answer dropped
ItPullTwice ==
    /\ it.pc = "acquiring"
    /\ g.result[it.cur] = "granted"
    /\ it' = [it EXCEPT !.pc = "pulling"]
    /\ src' = [src EXCEPT !.pulls = @ + 2, !.pos = @ + 1]
    /\ UNCHANGED <<g, aborted, kind, body, order, nIssued, relCalls, relThrows, rt, cbVars, cx>>

\* next() resumes with its slot and pulls upstream
ItPull ==
    /\ it.pc = "acquiring"
    /\ g.result[it.cur] = "granted"
    /\ it' = [it EXCEPT !.pc = "pulling"]
    /\ src' = [src EXCEPT !.pulls = @ + 1]
    /\ UNCHANGED <<g, aborted, kind, body, order, nIssued, relCalls, relThrows, rt, cbVars, cx>>

\* iter.next() settles: an item, exhaustion, or an upstream error
ItSettle ==
    /\ it.pc = "pulling"
    /\ LET u == Upstream(src) IN
          IF u = "value"
          THEN /\ it' = [it EXCEPT !.pending = it.cur, !.cur = Null, !.pc = "idle",
                                   !.last = "item",
                                   !.delivered = Append(@, src.pos + 1)]
               /\ src' = [src EXCEPT !.pos = @ + 1]
               /\ g' = g
          ELSE LET r == release(g, it.cur) IN
               /\ g' = r.gate
               /\ src' = [src EXCEPT !.finished = TRUE]
               /\ it' = [it EXCEPT !.cur = Null, !.pc = "idle",
                                   !.rel = IF r.threw THEN @ ELSE @ + 1,
                                   !.fault = @ \/ r.threw,
                                   !.done = IF u = "done" THEN TRUE ELSE @,
                                   !.last = IF u = "done" THEN "done" ELSE "error",
                                   !.end = IF @ # "none" THEN @
                                           ELSE IF u = "done" THEN "exhausted"
                                           ELSE "upstreamError"]
    /\ UNCHANGED <<aborted, kind, body, order, nIssued, relCalls, relThrows, rt, cbVars, cx>>

\* the mutant of return(): no releasePending
ItReturnNoRelease ==
    /\ it.pc = "idle"
    /\ it' = [it EXCEPT !.done = TRUE, !.last = "done",
                        !.end = IF @ = "none" THEN "returned" ELSE @]
    /\ src' = [src EXCEPT !.finished = TRUE]
    /\ UNCHANGED <<g, aborted, kind, body, order, nIssued, relCalls, relThrows, rt, cbVars, cx>>

\* the consumer closes early: return()
ItReturn ==
    /\ it.pc = "idle"
    /\ LET rp == releasePending(g, [it EXCEPT !.call = "return"]) IN
          /\ g' = rp.gate
          /\ it' = IF rp.it.fault THEN [rp.it EXCEPT !.last = "error"]
                   ELSE [rp.it EXCEPT !.done = TRUE, !.last = "done",
                                      !.end = IF @ = "none" THEN "returned" ELSE @]
          /\ src' = IF rp.it.fault THEN src ELSE [src EXCEPT !.finished = TRUE]
    /\ UNCHANGED <<aborted, kind, body, order, nIssued, relCalls, relThrows, rt, cbVars, cx>>

\* the consumer fails: throw(error)
ItThrow ==
    /\ it.pc = "idle"
    /\ LET rp == releasePending(g, [it EXCEPT !.call = "throw"]) IN
          /\ g' = rp.gate
          /\ it' = IF rp.it.fault THEN [rp.it EXCEPT !.last = "error"]
                   ELSE [rp.it EXCEPT !.done = TRUE, !.last = "error",
                                      !.end = IF @ = "none" THEN "consumerThrow" ELSE @]
          /\ src' = IF rp.it.fault THEN src ELSE [src EXCEPT !.finished = TRUE]
    /\ UNCHANGED <<aborted, kind, body, order, nIssued, relCalls, relThrows, rt, cbVars, cx>>

WrapNext ==
    \/ ItNext
    \/ ItPull
    \/ ItSettle
    \/ ItReturn
    \/ ItThrow
    \/ Acquire("acquire", NoTimeout, NoSignal)
    \/ \E c \in Calls : ReleaseToken(c)

WrapSpec == WrapInit /\ [][WrapNext]_vars

\* ------------------------------------------------- Retrier and retryWithGate

\* the contexts a store can hold
Contexts == 1..NumContexts

\* the caller-supplied deriveContext(parent, retryCtx): the child keeps the
\* parent and carries the RetryContext
deriveContext(parent, retryCtx) ==
    [ parent      |-> parent,
      attempt     |-> retryCtx.attempt,
      maxAttempts |-> retryCtx.maxAttempts,
      isFinal     |-> retryCtx.isFinal ]

\* fn runs under the parent itself (or under no context): nothing was derived
Underived(parent) ==
    [parent |-> parent, attempt |-> 0, maxAttempts |-> 0, isFinal |-> FALSE]

\* the mutant of childContext: derives from the store's content at attempt time
childContextAmbient(r) ==
    IF r.ambient # NoContext /\ r.deriver
    THEN deriveContext(r.ambient, [attempt |-> r.attempt, maxAttempts |-> r.maxAttempts,
                                   isFinal |-> r.attempt = r.maxAttempts])
    ELSE Underived(r.ambient)

\* retryCtx and childContext of attempt r.attempt
childContext(r) ==
    IF r.parent # NoContext /\ r.deriver
    THEN deriveContext(r.parent, [attempt |-> r.attempt, maxAttempts |-> r.maxAttempts,
                                  isFinal |-> r.attempt = r.maxAttempts])
    ELSE Underived(r.parent)

\* the mutant of recordError: keeps the first error
recordFirstError(r) ==
    [r EXCEPT !.lastError = IF @ = 0 THEN r.attempt ELSE @]

\* lastError = error; the error of attempt k is numbered k
recordError(r) == [r EXCEPT !.lastError = r.attempt]

\* delays are held in quarters of a millisecond, so that halves and their jitter are whole numbers
Scale == 4

\* Math.random(), in quarters
Randoms == 0..(Scale - 1)

RECURSIVE Pow2(_)
\* Math.pow(2, n)
Pow2(n) == IF n <= 0 THEN 1 ELSE 2 * Pow2(n - 1)

MathMin(a, b) == IF a <= b THEN a ELSE b

MathMax(a, b) == IF a >= b THEN a ELSE b

\* Math.round(v / Scale): the nearest integer, a half going up
MathRound(v) == (2 * v + Scale) \div (2 * Scale)

\* the mutant of calculateDelay: the exponential is not capped
calculateDelayUncapped(attempt, baseDelay, maxDelay, jitter, random) ==
    LET exponential == baseDelay * Pow2(attempt - 1)
        jitterRange == exponential * jitter
        jitterValue == ((random * 2 - Scale) * jitterRange) \div Scale
    IN MathMax(0, MathRound(exponential + jitterValue))

\* calculateDelay(attempt, baseDelay, maxDelay, jitter), random being what Math.random() returns;
\* the result is in ms
calculateDelay(attempt, baseDelay, maxDelay, jitter, random) ==
    LET exponential == baseDelay * Pow2(attempt - 1)
        capped == MathMin(exponential, maxDelay)
        jitterRange == capped * jitter
        jitterValue == ((random * 2 - Scale) * jitterRange) \div Scale
    IN MathMax(0, MathRound(capped + jitterValue))

\* the mutant of rethrows: every error is retried
rethrowsNever(retryable) == FALSE

\* !this.isRetryable(error)
rethrows(retryable) == ~retryable

\* retryWithGate(retrier, gate, fn, {timeout, signal}) before its call, made
\* under context ctx with a retrier of maxAttempts, with or without deriveContext
NewRetry(maxAttempts, deriver, ctx) ==
    [ pc          |-> "new",     \* new, acquiring, attempt, sleeping, sleepRejected, done
      maxAttempts |-> maxAttempts,
      deriver     |-> deriver,
      ctx         |-> ctx,       \* the context the call is made under
      ambient     |-> ctx,       \* what the store holds for the code running now
      parent      |-> NoContext, \* parentContext of Retrier.run
      seen        |-> <<>>,      \* the context fn ran under, per invocation
      lastError   |-> 0,
      verdict     |-> TRUE,      \* isRetryable(lastError)
      payload     |-> 0,         \* the result, the rethrown error, or RetryExhaustedError.lastError
      attempts    |-> 0,         \* RetryExhaustedError.attempts
      signal      |-> NoSignal,
      tok         |-> Null,      \* the acquisition made by retryWithGate
      attempt     |-> 0,         \* the loop variable of Retrier.run
      calls       |-> 0,         \* invocations of fn
      acq         |-> 0,         \* gate.acquire calls made
      rel         |-> 0,         \* invocations of the release token
      outcome     |-> "none",    \* ok, error, RetryExhaustedError, RetryAbortedError, TimeoutError, AbortError
      abortAt     |-> 0,         \* RetryAbortedError.attempt
      phase       |-> "none",    \* RetryAbortedError.phase
      baseDelay   |-> Scale,     \* 1 ms
      maxDelay    |-> 2 * Scale, \* 2 ms
      jitter      |-> 0,
      sleeps      |-> <<>> ]     \* the delays, in ms, of the timers sleep() has armed

\* the finally of retryWithGate: release(), and the call settles with outcome o
RtFinish(r, gt, o) ==
    LET x == release(gt, r.tok) IN
    [gate |-> x.gate,
     rt   |-> [r EXCEPT !.pc = "done", !.outcome = IF x.threw THEN "ReleaseTwice" ELSE o,
                        !.rel = @ + 1]]

\* RetryAbortedError(attempt, phase) leaves Retrier.run
RtAborted(r, gt, ph) ==
    RtFinish([r EXCEPT !.abortAt = r.attempt, !.phase = ph], gt, "RetryAbortedError")

\* throw new RetryExhaustedError(this.maxAttempts, lastError)
RtExhausted(r, gt) ==
    RtFinish([r EXCEPT !.attempts = r.maxAttempts, !.payload = r.lastError],
             gt, "RetryExhaustedError")

\* the mutant of RtBeginAttempt: no abort check before the attempt
RtBeginAttemptNoCheck(r, gt, ab) ==
    IF r.attempt > r.maxAttempts THEN RtExhausted(r, gt)
    ELSE [gate |-> gt, rt |-> [r EXCEPT !.pc = "attempt", !.calls = @ + 1,
                                         !.seen = Append(@, childContext(r))]]

\* the head of the loop of Retrier.run for r.attempt: the loop condition, the
\* abort check, then fn() under the child context
RtBeginAttempt(r, gt, ab) ==
    IF r.attempt > r.maxAttempts THEN RtExhausted(r, gt)
    ELSE IF r.signal # NoSignal /\ ab[r.signal]
    THEN RtAborted(r, gt, "execution")
    ELSE [gate |-> gt, rt |-> [r EXCEPT !.pc = "attempt", !.calls = @ + 1,
                                         !.seen = Append(@, childContext(r))]]

\* the mutant of RtCatch: sleep() arms its timer without looking at signal.aborted
RtCatchSleepsAnyway(r0, gt, retryable, random, ab) ==
    LET r == [recordError(r0) EXCEPT !.verdict = retryable] IN
    IF rethrows(retryable) THEN RtFinish([r EXCEPT !.payload = r0.attempt], gt, "error")
    ELSE IF r.attempt = r.maxAttempts THEN RtExhausted(r, gt)
    ELSE [gate |-> gt,
          rt   |-> [r EXCEPT !.pc = "sleeping",
                             !.sleeps = Append(@, calculateDelay(r.attempt, r.baseDelay, r.maxDelay,
                                                                 r.jitter, random))]]

\* the catch block of Retrier.run for the error of attempt r0.attempt, retryable being
\* this.isRetryable(error) and random what Math.random() returns in calculateDelay
RtCatch(r0, gt, retryable, random, ab) ==
    LET r == [recordError(r0) EXCEPT !.verdict = retryable] IN
    IF rethrows(retryable) THEN RtFinish([r EXCEPT !.payload = r0.attempt], gt, "error")
    ELSE IF r.attempt = r.maxAttempts THEN RtExhausted(r, gt)
    ELSE IF r.signal # NoSignal /\ ab[r.signal] THEN RtAborted(r, gt, "backoff")
    ELSE [gate |-> gt,
          rt   |-> [r EXCEPT !.pc = "sleeping",
                             !.sleeps = Append(@, calculateDelay(r.attempt, r.baseDelay, r.maxDelay,
                                                                 r.jitter, random))]]

RetryInit ==
    /\ CallersInit
    /\ rt \in {NewRetry(m, d, c) : m \in 1..MaxAttempts, d \in BOOLEAN,
                                    c \in {NoContext} \cup Contexts}
    /\ WrapIdle
    /\ BreakerIdle
    /\ CtxIdle

\* retryWithGate is called: STEP 1, gate.acquire({timeout, signal})
RtStart(timeout, signal) ==
    /\ rt.pc = "new"
    /\ nIssued < MaxCalls
    /\ LET c == nIssued + 1 IN
          /\ g' = acquire(g, c, timeout, signal, aborted)
          /\ kind' = [kind EXCEPT ![c] = "retry"]
          /\ rt' = [rt EXCEPT !.pc = "acquiring", !.tok = c, !.signal = signal, !.acq = @ + 1]
    /\ nIssued' = nIssued + 1
    /\ UNCHANGED <<aborted, body, order, relCalls, relThrows, wrapVars, cbVars, cx>>

\* the acquire settles: rejected, or granted and Retrier.run starts attempt 1
RtAcquired ==
    /\ rt.pc = "acquiring"
    /\ g.result[rt.tok] # "pending"
    /\ IF g.result[rt.tok] = "granted"
       THEN LET x == RtBeginAttempt([rt EXCEPT !.attempt = 1, !.parent = rt.ctx], g, aborted) IN
            g' = x.gate /\ rt' = x.rt
       ELSE g' = g /\ rt' = [rt EXCEPT !.pc = "done", !.outcome = g.result[rt.tok]]
    /\ UNCHANGED <<aborted, kind, body, order, nIssued, relCalls, relThrows, wrapVars, cbVars, cx>>

\* fn resolves: Retrier.run returns and the slot is released
RtAttemptSucceeds ==
    /\ rt.pc = "attempt"
    /\ LET x == RtFinish([rt EXCEPT !.payload = rt.attempt], g, "ok") IN
          g' = x.gate /\ rt' = x.rt
    /\ UNCHANGED <<aborted, kind, body, order, nIssued, relCalls, relThrows, wrapVars, cbVars, cx>>

\* the mutant of RtAttemptFails: gives the slot back for the time of the backoff
RtAttemptFailsReleasing(retryable) ==
    /\ rt.pc = "attempt"
    /\ retryable /\ rt.attempt < rt.maxAttempts
    /\ rt.signal = NoSignal \/ ~aborted[rt.signal]
    /\ g' = release(g, rt.tok).gate
    /\ rt' = [rt EXCEPT !.pc = "sleeping", !.rel = @ + 1]
    /\ UNCHANGED <<aborted, kind, body, order, nIssued, relCalls, relThrows, wrapVars, cbVars, cx>>

\* fn rejects: rethrow, exhaust, or sleep(delay, signal) before the next attempt
RtAttemptFails(retryable) ==
    /\ rt.pc = "attempt"
    /\ \E random \in Randoms :
          LET x == RtCatch(rt, g, retryable, random, aborted) IN g' = x.gate /\ rt' = x.rt
    /\ UNCHANGED <<aborted, kind, body, order, nIssued, relCalls, relThrows, wrapVars, cbVars, cx>>

\* the backoff timer fires: the loop goes on with the next attempt
RtSleepDone ==
    /\ rt.pc = "sleeping"
    /\ LET x == RtBeginAttempt([rt EXCEPT !.attempt = @ + 1], g, aborted) IN
          g' = x.gate /\ rt' = x.rt
    /\ UNCHANGED <<aborted, kind, body, order, nIssued, relCalls, relThrows, wrapVars, cbVars, cx>>

\* the mutant of RtAbort: the sleep has no abort listener
RtAbortNoWake(s) ==
    /\ ~aborted[s]
    /\ aborted' = [aborted EXCEPT ![s] = TRUE]
    /\ g' = fireListeners(g, s, DOMAIN g.listener)
    /\ rt' = rt
    /\ UNCHANGED <<kind, body, order, nIssued, relCalls, relThrows, wrapVars, cbVars, cx>>

\* other code runs under another context while the retrier sleeps
RtAmbientChange(c) ==
    /\ rt.pc = "sleeping"
    /\ rt.ambient # c
    /\ rt' = [rt EXCEPT !.ambient = c]
    /\ UNCHANGED <<gateVars, callVars, wrapVars, cbVars, cx>>

\* controller.abort(): the gate's listeners run, and the listener of sleep()
RtAbort(s) ==
    /\ ~aborted[s]
    /\ aborted' = [aborted EXCEPT ![s] = TRUE]
    /\ g' = fireListeners(g, s, DOMAIN g.listener)
    /\ rt' = IF rt.pc = "sleeping" /\ rt.signal = s THEN [rt EXCEPT !.pc = "sleepRejected"] ELSE rt
    /\ UNCHANGED <<kind, body, order, nIssued, relCalls, relThrows, wrapVars, cbVars, cx>>

\* Retrier.run resumes from the rejected sleep: RetryAbortedError(attempt, backoff)
RtSleepRejected ==
    /\ rt.pc = "sleepRejected"
    /\ LET x == RtAborted(rt, g, "backoff") IN g' = x.gate /\ rt' = x.rt
    /\ UNCHANGED <<aborted, kind, body, order, nIssued, relCalls, relThrows, wrapVars, cbVars, cx>>

RetryNext ==
    \/ \E t \in Timeouts, s \in Signals \cup {NoSignal} : RtStart(t, s)
    \/ RtAcquired
    \/ RtAttemptSucceeds
    \/ \E retryable \in BOOLEAN : RtAttemptFails(retryable)
    \/ RtSleepDone
    \/ \E s \in Signals : RtAbort(s)
    \/ RtSleepRejected
    \/ \E c \in {NoContext} \cup Contexts : RtAmbientChange(c)
    \/ \E c \in Calls : TimerExpiry(c)
    \/ Acquire("acquire", NoTimeout, NoSignal)
    \/ \E c \in Calls : ReleaseToken(c)

RetrySpec == RetryInit /\ [][RetryNext]_vars

\* --------------------------------------------------------- CircuitBreaker

\* new CircuitBreaker({failureThreshold, resetTimeout, successThreshold}) at time t
NewBreaker(failureThreshold, resetTimeout, successThreshold, t) ==
    [ failureThreshold |-> failureThreshold,
      resetTimeout     |-> resetTimeout,
      successThreshold |-> successThreshold,
      state            |-> "CLOSED",      \* _state
      failures         |-> 0,
      successes        |-> 0,
      lastFailureAt    |-> NullTime,
      lastStateChange  |-> t,
      totalRejections  |-> 0,
      probeInFlight    |-> FALSE ]

transitionTo(cbr, st, t) ==
    IF cbr.state = st THEN cbr
    ELSE [cbr EXCEPT !.state = st, !.lastStateChange = t]

\* the mutant of shouldAttemptReset: the wait must be strictly exceeded
shouldAttemptResetStrict(cbr, t) ==
    IF cbr.lastFailureAt = NullTime THEN FALSE
    ELSE t > cbr.lastFailureAt + cbr.resetTimeout

shouldAttemptReset(cbr, t) ==
    IF cbr.lastFailureAt = NullTime THEN FALSE
    ELSE t >= cbr.lastFailureAt + cbr.resetTimeout

\* get state(): the breaker after the read; the value read is its state
stateGetter(cbr, t) ==
    IF cbr.state = "OPEN" /\ shouldAttemptReset(cbr, t)
    THEN transitionTo(cbr, "HALF_OPEN", t)
    ELSE cbr

onSuccess(cbr, t) ==
    IF cbr.state = "CLOSED"
    THEN [cbr EXCEPT !.failures = 0, !.successes = @ + 1]
    ELSE IF cbr.state = "HALF_OPEN"
    THEN LET c1 == [cbr EXCEPT !.successes = @ + 1] IN
         IF c1.successes >= c1.successThreshold
         THEN [transitionTo(c1, "CLOSED", t) EXCEPT !.failures = 0, !.successes = 0]
         ELSE c1
    ELSE cbr

\* the mutant of onFailure: a failed probe reopens without clearing successes
onFailureKeepSuccesses(cbr, isFailure, t) ==
    IF ~isFailure THEN cbr
    ELSE LET c1 == [cbr EXCEPT !.lastFailureAt = t] IN
         IF c1.state = "CLOSED"
         THEN LET c2 == [c1 EXCEPT !.failures = @ + 1] IN
              IF c2.failures >= c2.failureThreshold THEN transitionTo(c2, "OPEN", t) ELSE c2
         ELSE IF c1.state = "HALF_OPEN"
         THEN transitionTo(c1, "OPEN", t)
         ELSE c1

\* the mutant of onFailure: opens only above the threshold
onFailureLate(cbr, isFailure, t) ==
    IF ~isFailure THEN cbr
    ELSE LET c1 == [cbr EXCEPT !.lastFailureAt = t] IN
         IF c1.state = "CLOSED"
         THEN LET c2 == [c1 EXCEPT !.failures = @ + 1] IN
              IF c2.failures > c2.failureThreshold THEN transitionTo(c2, "OPEN", t) ELSE c2
         ELSE IF c1.state = "HALF_OPEN"
         THEN [transitionTo(c1, "OPEN", t) EXCEPT !.successes = 0]
         ELSE c1

\* the mutant of onFailure: every error counts, whatever isFailure says
onFailureCountsAll(cbr, isFailure, t) ==
    LET c1 == [cbr EXCEPT !.lastFailureAt = t] IN
    IF c1.state = "CLOSED"
    THEN LET c2 == [c1 EXCEPT !.failures = @ + 1] IN
         IF c2.failures >= c2.failureThreshold THEN transitionTo(c2, "OPEN", t) ELSE c2
    ELSE IF c1.state = "HALF_OPEN"
    THEN [transitionTo(c1, "OPEN", t) EXCEPT !.successes = 0]
    ELSE c1

\* onFailure(error), isFailure being this.isFailure(error)
onFailure(cbr, isFailure, t) ==
    IF ~isFailure THEN cbr
    ELSE LET c1 == [cbr EXCEPT !.lastFailureAt = t] IN
         IF c1.state = "CLOSED"
         THEN LET c2 == [c1 EXCEPT !.failures = @ + 1] IN
              IF c2.failures >= c2.failureThreshold THEN transitionTo(c2, "OPEN", t) ELSE c2
         ELSE IF c1.state = "HALF_OPEN"
         THEN [transitionTo(c1, "OPEN", t) EXCEPT !.successes = 0]
         ELSE c1

forceState(cbr, st, t) ==
    LET c1 == transitionTo(cbr, st, t) IN
    IF st = "CLOSED" THEN [c1 EXCEPT !.failures = 0, !.successes = 0] ELSE c1

\* new CircuitOpenError(state, lastFailureAt! + resetTimeout, failures); null + n is n
CircuitOpenError(cbr, st) ==
    [ state         |-> st,
      nextAttemptAt |-> (IF cbr.lastFailureAt = NullTime THEN 0 ELSE cbr.lastFailureAt)
                        + cbr.resetTimeout,
      failures      |-> cbr.failures ]

NoError == [state |-> "none", nextAttemptAt |-> 0, failures |-> 0]

\* a CircuitBreaker.run call that was not made yet
NewBreakerCall ==
    [ pc           |-> "new",    \* new, rejected, queued (for its gate slot), inflight, done
      currentState |-> "none",   \* the state run() read on entry, while the call is in flight
      res          |-> "none" ]  \* how fn ended: ok, fail (isFailure), benign (not isFailure)

InFlight(b) == b.pc \in {"queued", "inflight"}

\* the calls are issued in the order of their numbers
NextCall(calls) ==
    IF \E c \in DOMAIN calls : calls[c].pc = "new"
    THEN CHOOSE c \in DOMAIN calls : calls[c].pc = "new" /\ \A d \in DOMAIN calls : d < c => calls[d].pc # "new"
    ELSE Null

\* the qualifying failures seen in CLOSED since the last success or reset, counted by hand
StreakAfter(cbr, cbr2, res, streak) ==
    IF cbr2.state = "CLOSED" /\ cbr.state # "CLOSED" THEN 0
    ELSE IF cbr.state # "CLOSED" THEN streak
    ELSE IF res = "ok" THEN 0
    ELSE IF res = "fail" THEN streak + 1
    ELSE streak

\* the successes of probes since the breaker last entered HALF_OPEN, counted by hand
ProbeOksAfter(cbr, cbr2, probeOk, n) ==
    IF cbr2.state # "HALF_OPEN" \/ cbr.state # "HALF_OPEN" THEN 0
    ELSE IF probeOk THEN n + 1
    ELSE n

BreakerStart ==
    /\ now = 0
    /\ cb \in { NewBreaker(f, r, k, 0) :
                  f \in 1..MaxThreshold, r \in 0..MaxResetTimeout, k \in 1..MaxThreshold }
    /\ bc = [c \in BCalls |-> NewBreakerCall]
    /\ hist = [forces |-> 0, streak |-> 0, probeOks |-> 0, error |-> NoError]

CallersIdle ==
    /\ aborted = [s \in Signals |-> FALSE]
    /\ kind = [c \in Calls |-> "none"]
    /\ body = [c \in Calls |-> "none"]
    /\ order = <<>>
    /\ nIssued = 0
    /\ relCalls = [c \in Calls |-> 0]
    /\ relThrows = [c \in Calls |-> 0]

\* a breaker whose fn is opaque work: no gate is used
BreakerInit ==
    /\ BreakerStart
    /\ g = NewGate(1, BCalls)
    /\ CallersIdle /\ WrapIdle /\ RetryIdle /\ CtxIdle

\* a breaker in the composition circuit.run(() => gate.run(work))
BreakerGateInit ==
    /\ BreakerStart
    /\ g \in {NewGate(c, BCalls) : c \in 1..MaxCapacity}
    /\ CallersIdle /\ WrapIdle /\ RetryIdle /\ CtxIdle

\* run() rejects: OPEN, or HALF_OPEN with a probe in flight
Rejects(cbr) == cbr.state = "OPEN" \/ (cbr.state = "HALF_OPEN" /\ cbr.probeInFlight)


\* the mutant of InvokeFn: the gate slot is asked for before the circuit is checked
InvokeFnGateFirst(gt, c, rejected, viaGate, ab) ==
    IF ~viaGate THEN gt ELSE acquire(gt, c, NoTimeout, NoSignal, ab)

\* the gate after run() has invoked fn (an admitted call) or has not (a rejected one)
InvokeFn(gt, c, rejected, viaGate, ab) ==
    IF rejected \/ ~viaGate THEN gt ELSE acquire(gt, c, NoTimeout, NoSignal, ab)

\* circuit.run(fn) is called: the state check, then fn()
CbRunWith(viaGate) ==
    /\ NextCall(bc) # Null
    /\ LET c  == NextCall(bc)
           c1 == stateGetter(cb, now)
           rejected == Rejects(c1)
       IN /\ g' = InvokeFn(g, c, rejected, viaGate, aborted)
          /\ cb' = IF rejected THEN [c1 EXCEPT !.totalRejections = @ + 1]
                   ELSE IF c1.state = "HALF_OPEN" THEN [c1 EXCEPT !.probeInFlight = TRUE]
                   ELSE c1
          /\ bc' = [bc EXCEPT ![c] =
                      IF rejected THEN [@ EXCEPT !.pc = "rejected"]
                      ELSE [@ EXCEPT !.pc = IF viaGate THEN "queued" ELSE "inflight",
                                     !.currentState = c1.state]]
          /\ hist' = [hist EXCEPT !.error = IF rejected THEN CircuitOpenError(c1, c1.state) ELSE @,
                                  !.probeOks = ProbeOksAfter(cb, cb', FALSE, @)]
    /\ UNCHANGED <<aborted, kind, body, order, nIssued, relCalls, relThrows, wrapVars, rt, cx, now>>

CbRun == CbRunWith(FALSE)

CbRunGate == CbRunWith(TRUE)

\* gate.run resumes with its slot and invokes the work
CbWorkStart(c) ==
    /\ bc[c].pc = "queued"
    /\ g.result[c] = "granted"
    /\ bc' = [bc EXCEPT ![c].pc = "inflight"]
    /\ UNCHANGED <<g, aborted, kind, body, order, nIssued, relCalls, relThrows, wrapVars, rt, cx, cb, now, hist>>

\* the mutant of the settlement of run(): the finally clears probeInFlight for any call
SettleBreakerAlwaysClear(cbr, b, res, t) ==
    LET c1 == IF res = "ok" THEN onSuccess(cbr, t) ELSE onFailure(cbr, res = "fail", t)
    IN [c1 EXCEPT !.probeInFlight = FALSE]

\* the mutant of the settlement of run(): a probe that ends with an error that is
\* no failure (isFailure false) leaves probeInFlight set
SettleBreakerSkipBenign(cbr, b, res, t) ==
    LET c1 == IF res = "ok" THEN onSuccess(cbr, t) ELSE onFailure(cbr, res = "fail", t)
    IN IF b.currentState = "HALF_OPEN" /\ res # "benign" THEN [c1 EXCEPT !.probeInFlight = FALSE] ELSE c1

\* run() resumes after await fn(): onSuccess or onFailure, then the finally
SettleBreaker(cbr, b, res, t) ==
    LET c1 == IF res = "ok" THEN onSuccess(cbr, t) ELSE onFailure(cbr, res = "fail", t)
    IN IF b.currentState = "HALF_OPEN" THEN [c1 EXCEPT !.probeInFlight = FALSE] ELSE c1

\* fn settles with res; under a gate its slot is released first (finally of gate.run)
CbSettleWith(c, res, viaGate) ==
    /\ bc[c].pc = "inflight"
    /\ g' = IF viaGate THEN release(g, c).gate ELSE g
    /\ cb' = SettleBreaker(cb, bc[c], res, now)
    /\ bc' = [bc EXCEPT ![c] = [pc |-> "done", currentState |-> "none", res |-> res]]
    /\ hist' = [hist EXCEPT !.streak = StreakAfter(cb, cb', res, @),
                            !.probeOks = ProbeOksAfter(cb, cb',
                                            res = "ok" /\ bc[c].currentState = "HALF_OPEN", @)]
    /\ UNCHANGED <<aborted, kind, body, order, nIssued, relCalls, relThrows, wrapVars, rt, cx, now>>

CbSettle(c, res) == CbSettleWith(c, res, FALSE)

CbSettleGate(c, res) == CbSettleWith(c, res, TRUE)

\* circuit.state or circuit.getStats() is read
CbReadState ==
    /\ cb' = stateGetter(cb, now)
    /\ hist' = [hist EXCEPT !.probeOks = ProbeOksAfter(cb, cb', FALSE, @)]
    /\ UNCHANGED <<g, aborted, kind, body, order, nIssued, relCalls, relThrows, wrapVars, rt, cx, bc, now>>

\* circuit.forceState(st)
CbForceState(st) ==
    /\ hist.forces < MaxForces
    /\ cb' = forceState(cb, st, now)
    /\ hist' = [hist EXCEPT !.forces = @ + 1,
                            !.streak = IF st = "CLOSED" THEN 0 ELSE @,
                            !.probeOks = ProbeOksAfter(cb, cb', FALSE, @)]
    /\ UNCHANGED <<g, aborted, kind, body, order, nIssued, relCalls, relThrows, wrapVars, rt, cx, bc, now>>

\* time passes
Tick ==
    /\ now < MaxTime
    /\ now' = now + 1
    /\ UNCHANGED <<g, aborted, kind, body, order, nIssued, relCalls, relThrows, wrapVars, rt, cx, cb, bc, hist>>

BreakerNext ==
    \/ CbRun
    \/ \E c \in BCalls, res \in {"ok", "fail", "benign"} : CbSettle(c, res)
    \/ CbReadState
    \/ \E st \in {"CLOSED", "OPEN", "HALF_OPEN"} : CbForceState(st)
    \/ Tick

BreakerSpec == BreakerInit /\ [][BreakerNext]_vars

BreakerGateNext ==
    \/ CbRunGate
    \/ \E c \in BCalls : CbWorkStart(c)
    \/ \E c \in BCalls, res \in {"ok", "fail", "benign"} : CbSettleGate(c, res)
    \/ CbReadState
    \/ \E st \in {"CLOSED", "OPEN", "HALF_OPEN"} : CbForceState(st)
    \/ Tick

BreakerGateSpec == BreakerGateInit /\ [][BreakerGateNext]_vars

\* ------------------------------------------------------- claims on the gate

Rejected(gt, n) == gt.result[n] \in {"TimeoutError", "AbortError"}

\* C1 Bounded admission: for every capacity and every interleaving of acquire,
\* release, timer expiry and cancel, the number of granted and not yet released
\* tokens, and the running count, never exceed the capacity.
C1_BoundedAdmission ==
    /\ LiveTokens(g) <= g.concurrency
    /\ g.running <= g.concurrency

\* C1 witness: a full gate of capacity 2 with a waiter queued, after a release
\* has handed its slot to a waiter from the list.
C1_Witness ==
    /\ g.concurrency = 2
    /\ g.running = 2
    /\ LiveTokens(g) = 2
    /\ g.head # Null
    /\ \E n \in Calls : g.token[n] = "released"
    /\ \E n \in Calls : g.token[n] = "live" /\ g.settled[n]

\* C2 FIFO fairness: a waiter enqueued after another one is never granted while
\* the earlier one is still waiting; with capacity 1 the bodies of Gate.run
\* calls execute in the order the calls were issued.
C2_FIFO ==
    /\ \A w1, w2 \in Calls :
          (w1 < w2 /\ g.result[w1] = "pending") =>
              ~(g.result[w2] = "granted" /\ g.settled[w2])
    /\ g.concurrency = 1 =>
          \A i, j \in 1..Len(order) : i < j => order[i] < order[j]

\* C2 witness: capacity 1, three Gate.run calls, the second and third were
\* queued and granted from the wait list, and all three bodies have started.
C2_Witness ==
    /\ g.concurrency = 1
    /\ order = <<1, 2, 3>>
    /\ g.settled[2] /\ g.settled[3]
    /\ g.result[2] = "granted" /\ g.result[3] = "granted"

\* C3 Timeout/cancel non-effect: a waiter rejected by its timeout or its cancel
\* signal leaves running unchanged, is absent from the wait list, holds no
\* token and is never granted later; a held token still releases normally.
C3_RejectedNoEffect ==
    [][ /\ \A n \in Calls :
              /\ (~Rejected(g, n) /\ Rejected(g', n)) => g'.running = g.running
              /\ Rejected(g', n) =>
                    /\ ~InList(g', n)
                    /\ g'.token[n] = "none"
                    /\ g'.prev[n] = Null /\ g'.next[n] = Null
              /\ Rejected(g, n) => g'.result[n] = g.result[n]
        /\ \A c \in Calls :
              (relCalls'[c] = relCalls[c] + 1 /\ g.token[c] = "live") =>
                  /\ g'.token[c] = "released"
                  /\ relThrows'[c] = relThrows[c]
                  /\ \/ g'.running = g.running - 1
                     \/ /\ g'.running = g.running
                        /\ \E n \in Calls : g.result[n] = "pending" /\ g'.result[n] = "granted"
      ]_vars

\* C3 witness: one waiter timed out, another was cancelled, and afterwards a
\* held token was released and a later waiter was granted from the list.
C3_Witness ==
    /\ \E n \in Calls : g.result[n] = "TimeoutError"
    /\ \E n \in Calls : g.result[n] = "AbortError" /\ g.settled[n]
    /\ \E n \in Calls : g.token[n] = "released"
    /\ \E n \in Calls : g.result[n] = "granted" /\ g.settled[n]

\* C4 Double-release crash: a second invocation of a release token throws and
\* leaves the running count and the wait list (the whole gate) unchanged.
C4_DoubleRelease ==
    [][ \A c \in Calls :
            (relCalls'[c] = relCalls[c] + 1 /\ g.token[c] = "released") =>
                /\ relThrows'[c] = relThrows[c] + 1
                /\ g' = g
      ]_vars

\* C4 witness: a token was invoked twice, the second invocation threw, and a
\* waiter is queued on the full gate at that time.
C4_Witness ==
    \E c \in Calls :
        /\ relCalls[c] = 2
        /\ relThrows[c] = 1
        /\ g.head # Null
        /\ g.running = g.concurrency

\* ---------------------------------------------------- claims on the iterator

IterEnded == it.pc = "idle" /\ it.end # "none"

\* C5 Iterator slot accounting: once an iteration by a single sequential
\* consumer has ended (exhaustion, return(), upstream error, throw()) the
\* iterator has released as many slots as it acquired and holds none, so the
\* running count is what the other holders account for.
C5_SlotAccounting ==
    IterEnded =>
        /\ it.acq = it.rel
        /\ it.pending = Null
        /\ ~it.fault
        /\ \A c \in Calls : kind[c] = "iter" => g.token[c] = "released"
        /\ Cardinality({c \in Calls : kind[c] = "iter"}) = it.acq
        /\ g.running = Cardinality({c \in Calls : kind[c] = "acquire" /\ g.token[c] = "live"})

\* C5 witness: an iteration closed early by return() after two pulls, one of
\* which had to wait in the gate's list; two acquisitions, two releases.
C5_Witness ==
    /\ IterEnded
    /\ it.end = "returned"
    /\ it.acq = 2 /\ it.rel = 2
    /\ \E c \in Calls : kind[c] = "iter" /\ g.settled[c]

\* ------------------------------------------------- claims on retryWithGate

RtRunning == rt.pc \in {"attempt", "sleeping", "sleepRejected"}

\* C6 Hold-slot-during-backoff: retryWithGate acquires one slot before the
\* first attempt, holds it through every attempt and every backoff sleep, and
\* releases it once when the retry sequence ends; while the task is backing
\* off no queued waiter is admitted unless another holder released its slot.
C6_HoldSlot ==
    [][ /\ rt'.calls > 0 => g.result[rt.tok] = "granted"
        /\ RtRunning' =>
              /\ g'.token[rt'.tok] = "live"
              /\ rt'.acq = 1 /\ rt'.rel = 0
        /\ rt'.pc = "done" =>
              /\ rt'.acq = 1
              /\ IF rt'.outcome \in {"TimeoutError", "AbortError"}
                 THEN rt'.rel = 0 /\ g'.token[rt'.tok] = "none" /\ rt'.calls = 0
                 ELSE /\ rt'.rel = 1 /\ g'.token[rt'.tok] = "released"
                      /\ rt'.outcome \in {"ok", "error", "RetryExhaustedError", "RetryAbortedError"}
        /\ (rt.pc = "sleeping" /\ rt'.pc \in {"sleeping", "sleepRejected"}) =>
              \A n \in Calls :
                  (g.result[n] = "pending" /\ g'.result[n] = "granted") =>
                      \E c \in Calls \ {rt.tok} : g.token[c] = "live" /\ g'.token[c] = "released"
      ]_vars

\* C6 witness: on a gate of capacity 1 the task is backing off after its
\* second failed attempt, holds the only slot, and a waiter is queued.
C6_Witness ==
    /\ g.concurrency = 1
    /\ rt.pc = "sleeping"
    /\ rt.attempt = 2
    /\ g.token[rt.tok] = "live"
    /\ g.head # Null

\* ------------------------------------------------ claims on the CircuitBreaker

\* resetTimeout has elapsed since the last failure
Elapsed == cb.lastFailureAt # NullTime /\ now >= cb.lastFailureAt + cb.resetTimeout

\* what a read of the state returns
ReadsOpen == cb.state = "OPEN" /\ ~Elapsed
ReadsHalfOpen == cb.state = "HALF_OPEN" \/ (cb.state = "OPEN" /\ Elapsed)

\* this step is the entry of run() for call c
RunStep(c) == bc[c].pc = "new" /\ bc'[c].pc # "new"

\* this step is the settlement of call c
SettleStep(c) == bc[c].pc = "inflight" /\ bc'[c].pc = "done"

\* this step is a forceState call
ForceStep == hist'.forces # hist.forces

\* the calls admitted as probes and still in flight
Probes == {c \in BCalls : InFlight(bc[c]) /\ bc[c].currentState = "HALF_OPEN"}

\* C7 CLOSED to OPEN: a CLOSED breaker becomes OPEN (other than by forceState)
\* exactly when the qualifying failures since the last success or reset reach
\* failureThreshold; with fewer it stays CLOSED with failures equal to that
\* number; a success in CLOSED resets failures to 0.
C7_ClosedToOpen ==
    [][ /\ cb'.state = "CLOSED" =>
              /\ cb'.failures = hist'.streak
              /\ hist'.streak < cb'.failureThreshold
        /\ (cb.state = "CLOSED" /\ ~ForceStep) =>
              /\ cb'.state \in {"CLOSED", "OPEN"}
              /\ cb'.state = "OPEN" <=> hist'.streak = cb.failureThreshold
        /\ \A c \in BCalls :
              (SettleStep(c) /\ bc'[c].res = "ok" /\ cb.state = "CLOSED") =>
                  cb'.failures = 0 /\ cb'.state = "CLOSED"
      ]_vars

\* C7 witness: with failureThreshold 2 the breaker was opened by two qualifying
\* failures that followed a success, without any forceState.
C7_Witness ==
    /\ cb.state = "OPEN"
    /\ cb.failureThreshold = 2
    /\ hist.streak = 2
    /\ hist.forces = 0
    /\ bc[1].res = "fail" /\ bc[2].res = "ok" /\ bc[3].res = "fail" /\ bc[4].res = "fail"

\* C8 Fail-before-gate: while the breaker reads OPEN, run(fn) is rejected with
\* CircuitOpenError{state OPEN, nextAttemptAt, failures}, fn is not invoked,
\* one rejection is counted and nothing else changes: the gate is untouched.
C8_FailBeforeGate ==
    [][ \A c \in BCalls :
            (RunStep(c) /\ ReadsOpen) =>
                /\ bc'[c].pc = "rejected"
                /\ hist'.error.state = "OPEN"
                /\ hist'.error.failures = cb.failures
                /\ hist'.error.nextAttemptAt =
                       (IF cb.lastFailureAt = NullTime THEN 0 ELSE cb.lastFailureAt) + cb.resetTimeout
                /\ cb' = [cb EXCEPT !.totalRejections = @ + 1]
                /\ g' = g
      ]_vars

\* C8 witness: a call was rejected in OPEN while the gate of capacity 1 was
\* full with a waiter queued; the gate holds no trace of the rejected call.
C8_Witness ==
    \E c \in BCalls :
        /\ bc[c].pc = "rejected"
        /\ hist.error.state = "OPEN"
        /\ hist.forces = 0
        /\ g.concurrency = 1 /\ g.running = 1 /\ g.head # Null
        /\ g.result[c] = "none"
        /\ cb.totalRejections = 1

\* C9 Half-open single probe: at most one call admitted as a probe is in
\* flight; a run() arriving while the breaker reads HALF_OPEN and a probe is in
\* flight is rejected with state HALF_OPEN without invoking fn.
C9_SingleProbe ==
    [][ /\ Cardinality(Probes') <= 1
        /\ \A c \in BCalls :
              (RunStep(c) /\ ReadsHalfOpen /\ Probes # {}) =>
                  /\ bc'[c].pc = "rejected"
                  /\ hist'.error.state = "HALF_OPEN"
                  /\ cb'.totalRejections = cb.totalRejections + 1
      ]_vars

\* C9 witness: a probe is in flight and a later call was rejected with state
\* HALF_OPEN; no forceState was used.
C9_Witness ==
    /\ Probes # {}
    /\ hist.forces = 0
    /\ hist.error.state = "HALF_OPEN"
    /\ \E c \in BCalls : bc[c].pc = "rejected" /\ \A p \in Probes : p < c

\* C10 OPEN to HALF_OPEN: an OPEN breaker stays OPEN while time passes and
\* calls settle; a read (run, state getter) leaves it OPEN before resetTimeout
\* has elapsed since the last failure and makes it HALF_OPEN once it has.
C10_LazyHalfOpen ==
    [][ (cb.state = "OPEN" /\ ~ForceStep) =>
            /\ cb'.state \in {"OPEN", "HALF_OPEN"}
            /\ cb'.state = "HALF_OPEN" =>
                  /\ Elapsed
                  /\ now' = now
                  /\ \A c \in BCalls : ~SettleStep(c)
            /\ \A c \in BCalls : RunStep(c) =>
                  /\ cb'.state = "HALF_OPEN" <=> Elapsed
                  /\ ~Elapsed => bc'[c].pc = "rejected" /\ hist'.error.state = "OPEN"
            /\ (\A c \in BCalls : bc'[c] = bc[c]) /\ now' = now /\ Elapsed =>
                  cb'.state = "HALF_OPEN"
      ]_vars

\* C10 witness: the breaker became HALF_OPEN by a read made later than the
\* moment resetTimeout elapsed (the transition carries the time of the read).
C10_Witness ==
    /\ cb.state = "HALF_OPEN"
    /\ hist.forces = 0
    /\ cb.resetTimeout = 1
    /\ cb.lastStateChange > cb.lastFailureAt + cb.resetTimeout
    /\ \A c \in BCalls : bc[c].currentState # "HALF_OPEN"

\* this step settles call c, admitted as a probe, while the breaker is HALF_OPEN
ProbeSettles(c) == SettleStep(c) /\ bc[c].currentState = "HALF_OPEN" /\ cb.state = "HALF_OPEN"

\* C11 HALF_OPEN to CLOSED, as stated: a HALF_OPEN breaker becomes CLOSED (other
\* than by forceState) only by the successThreshold-th probe success since it
\* entered HALF_OPEN, which zeroes failures and successes; an earlier probe
\* success leaves it HALF_OPEN.
C11_ClosesAfterKProbes ==
    [][ (cb.state = "HALF_OPEN" /\ ~ForceStep) =>
            /\ cb'.state = "CLOSED" =>
                  \E c \in BCalls :
                      /\ ProbeSettles(c) /\ bc'[c].res = "ok"
                      /\ hist.probeOks + 1 = cb.successThreshold
            /\ \A c \in BCalls : (ProbeSettles(c) /\ bc'[c].res = "ok") =>
                  IF hist.probeOks + 1 < cb.successThreshold
                  THEN cb'.state = "HALF_OPEN"
                  ELSE cb'.state = "CLOSED" /\ cb'.failures = 0 /\ cb'.successes = 0
      ]_vars

\* C11 failing run: with failureThreshold 1 and successThreshold 2, the calls
\* ok, fail, ok closed the breaker again: it left HALF_OPEN with at most one
\* probe success, without any forceState.
C11_Witness ==
    /\ cb.state = "CLOSED"
    /\ hist.forces = 0
    /\ cb.failureThreshold = 1 /\ cb.successThreshold = 2 /\ cb.resetTimeout = 1
    /\ bc[1].res = "ok" /\ bc[2].res = "fail" /\ bc[3].res = "ok" /\ bc[4].pc = "new"
    /\ cb.lastStateChange > cb.lastFailureAt

\* C12 HALF_OPEN to OPEN, amended: in HALF_OPEN a probe failure that isFailure
\* accepts returns the breaker to OPEN, with lastFailureAt set to the time of
\* that failure and successes cleared; a probe failure that isFailure rejects
\* changes neither the state nor the counters.
C12_ProbeFailureReopens ==
    [][ \A c \in BCalls : ProbeSettles(c) =>
            /\ bc'[c].res = "fail" =>
                  /\ cb'.state = "OPEN"
                  /\ cb'.lastFailureAt = now
                  /\ cb'.lastStateChange = now
                  /\ cb'.successes = 0
                  /\ ~Elapsed' <=> cb.resetTimeout > 0
            /\ bc'[c].res = "benign" =>
                  cb' = [cb EXCEPT !.probeInFlight = FALSE]
      ]_vars

\* C12 witness: a probe failed in HALF_OPEN after an earlier probe success had
\* been counted, and the breaker is OPEN again with the wait restarted.
C12_Witness ==
    /\ cb.state = "OPEN"
    /\ hist.forces = 0
    /\ cb.successThreshold = 2
    /\ cb.resetTimeout = 1
    /\ cb.successes = 0
    /\ cb.lastFailureAt = now /\ now = 2
    /\ bc[1].res = "fail" /\ bc[2].res = "ok" /\ bc[3].res = "fail"

\* C12 as stated: any probe failure in HALF_OPEN returns the breaker to OPEN
\* with the wait restarted and the success count cleared.
C12_AnyProbeFailureReopens ==
    [][ \A c \in BCalls : (ProbeSettles(c) /\ bc'[c].res # "ok") =>
            /\ cb'.state = "OPEN"
            /\ cb'.lastFailureAt = now
            /\ cb'.successes = 0
      ]_vars

\* ------------------------------------------------------ claims on Retrier.run

\* the RetryContext of attempt k of the run
RetryContextOf(k) == [attempt |-> k, maxAttempts |-> rt.maxAttempts, isFinal |-> k = rt.maxAttempts]

\* this step is the failure of the attempt in progress
AttemptFailsStep == rt.pc = "attempt" /\ rt'.lastError = rt.attempt

\* the cancel signal of the run has fired
SignalFired == rt.signal # NoSignal /\ aborted[rt.signal]

\* C13 Retry causality: the parent context is captured once, at the call;
\* the k-th invocation of fn runs under deriveContext(parent, {attempt k,
\* maxAttempts, isFinal: k = maxAttempts}) (deriveContext configured, a context
\* present), so every attempt sees the same parent, the attempt numbers go up
\* by one and isFinal holds on attempt maxAttempts only, whatever the store
\* holds for other code during the backoff.
C13_RetryCausality ==
    /\ Len(rt.seen) = rt.calls
    /\ rt.calls > 0 => rt.parent = rt.ctx
    /\ \A k \in 1..Len(rt.seen) :
          /\ rt.seen[k].parent = rt.ctx
          /\ (rt.deriver /\ rt.ctx # NoContext) =>
                /\ rt.seen[k] = deriveContext(rt.ctx, RetryContextOf(k))
                /\ rt.seen[k].attempt = k
                /\ rt.seen[k].isFinal <=> k = rt.maxAttempts

\* C13 witness: three attempts ran under contexts derived from the captured
\* parent although the store held something else during a backoff.
C13_Witness ==
    /\ rt.deriver /\ rt.ctx # NoContext
    /\ rt.ambient # rt.ctx
    /\ Len(rt.seen) = 3
    /\ rt.seen[3].isFinal /\ ~rt.seen[2].isFinal

\* C14 Retry exhaustion: fn is invoked at most maxAttempts times; a run that
\* ends without success, rethrow or cancellation has invoked fn exactly
\* maxAttempts times and fails with RetryExhaustedError{attempts = maxAttempts,
\* lastError = the error of the last attempt}; a success returns that attempt's
\* result and nothing is invoked after the run has settled.
C14_Exhaustion ==
    [][ /\ rt'.calls <= rt'.maxAttempts
        /\ rt'.outcome = "RetryExhaustedError" =>
              /\ rt'.calls = rt'.maxAttempts
              /\ rt'.attempts = rt'.maxAttempts
              /\ rt'.payload = rt'.maxAttempts
        /\ (rt'.pc = "done" /\ rt'.calls > 0 /\ rt'.outcome \notin {"ok", "error"} /\ ~SignalFired') =>
              rt'.outcome = "RetryExhaustedError"
        /\ rt'.outcome = "ok" => rt'.pc = "done" /\ rt'.payload = rt'.calls
        /\ rt.pc = "done" => rt' = rt
      ]_vars

\* C14 witness: with maxAttempts 3, three retryable failures exhausted the run.
C14_Witness ==
    /\ rt.outcome = "RetryExhaustedError"
    /\ rt.maxAttempts = 3 /\ rt.calls = 3
    /\ rt.payload = 3

\* C15 Unretryable short-circuit: when an attempt fails with an error that
\* isRetryable rejects, the run settles at once with that error: no sleep, no
\* further invocation of fn, no RetryExhaustedError, on whichever attempt.
C15_Unretryable ==
    [][ (AttemptFailsStep /\ ~rt'.verdict) =>
            /\ rt'.pc = "done"
            /\ rt'.outcome = "error"
            /\ rt'.payload = rt.attempt
            /\ rt'.calls = rt.calls
      ]_vars

\* C15 witness: the second of three allowed attempts failed with an
\* unretryable error, which is the outcome; the last attempt failed too.
C15_Witness ==
    /\ rt.outcome = "error"
    /\ rt.maxAttempts = 3
    /\ rt.calls = 2 /\ rt.payload = 2

\* C16 Abort mid-backoff: when the signal fires while the run sleeps after
\* attempt n, the sleep is rejected at once and the run fails with
\* RetryAbortedError{attempt n, phase backoff}; fn is not invoked again.
C16_AbortMidBackoff ==
    [][ /\ (rt.pc = "sleeping" /\ ~SignalFired /\ SignalFired') =>
              rt'.pc = "sleepRejected" /\ rt'.calls = rt.calls /\ rt'.attempt = rt.attempt
        /\ (rt.pc = "sleepRejected" /\ rt' # rt) =>
              /\ rt'.pc = "done"
              /\ rt'.outcome = "RetryAbortedError"
              /\ rt'.abortAt = rt.attempt /\ rt.attempt = rt.calls
              /\ rt'.phase = "backoff"
              /\ rt'.calls = rt.calls
      ]_vars

\* C16 witness: the run was cancelled during the sleep after attempt 2 of 3.
C16_Witness ==
    /\ rt.outcome = "RetryAbortedError"
    /\ rt.phase = "backoff"
    /\ rt.maxAttempts = 3
    /\ rt.abortAt = 2 /\ rt.calls = 2
    /\ rt.verdict

\* C17 Abort before start: when the signal is found fired at the start of
\* attempt k (k = 1: Retrier.run called with a fired signal), the run fails
\* with RetryAbortedError{attempt k, phase execution} and fn is not invoked.
C17_AbortBeforeStart ==
    [][ (rt'.attempt # rt.attempt /\ SignalFired) =>
            /\ rt'.pc = "done"
            /\ rt'.outcome = "RetryAbortedError"
            /\ rt'.abortAt = rt'.attempt
            /\ rt'.phase = "execution"
            /\ rt'.calls = rt.calls
      ]_vars

\* C17 witness: Retrier.run was called with a fired signal and failed at
\* attempt 1, phase execution, without invoking fn.
C17_Witness ==
    /\ rt.outcome = "RetryAbortedError"
    /\ rt.phase = "execution"
    /\ rt.abortAt = 1
    /\ rt.calls = 0

\* ------------------------------------------------------- claims on Gate.run

\* this step settles the fn of the admitted Gate.run call c
RunSettles(c) == kind[c] = "run" /\ body[c] = "started" /\ body'[c] # "started"

\* C18 Gate.run releases on every exit path: when fn returns or throws, the
\* slot of the call is released exactly once, without a double-release error;
\* the running count drops by one, or the slot goes to the head of the wait
\* list, which is granted; a settled call stays released.
C18_RunReleases ==
    [][ \A c \in Calls :
          /\ RunSettles(c) =>
                /\ body'[c] \in {"returned", "threw"}
                /\ g.token[c] = "live" /\ g'.token[c] = "released"
                /\ relCalls'[c] = 1 /\ relThrows'[c] = 0
                /\ IF g.head = Null
                   THEN g'.running = g.running - 1
                   ELSE g'.running = g.running /\ g'.result[g.head] = "granted"
                        /\ g'.token[g.head] = "live"
          /\ (kind[c] = "run" /\ body[c] \in {"returned", "threw"}) =>
                /\ body'[c] = body[c]
                /\ g'.token[c] = "released" /\ relCalls'[c] = 1
      ]_vars

\* C18 witness: on a gate of capacity 1 the first run's fn threw and the run
\* queued behind it was served and is executing.
C18_Witness ==
    /\ g.concurrency = 1
    /\ kind[1] = "run" /\ body[1] = "threw"
    /\ kind[2] = "run" /\ body[2] = "started"
    /\ g.running = 1

\* C19 Gate.run never runs unadmitted work: a Gate.run whose acquire failed by
\* timeout or cancellation never invokes fn and never releases, and the
\* failure leaves the running count as it was.
C19_NoUnadmittedWork ==
    [][ \A c \in Calls : (kind'[c] = "run" /\ Rejected(g', c)) =>
            /\ body'[c] = "none"
            /\ relCalls'[c] = 0
            /\ g'.token[c] = "none"
            /\ ~Rejected(g, c) => g'.running = g.running
      ]_vars

\* C19 witness: one run failed by timeout and one by cancellation while a
\* third held the slot; their fn never started and the gate is idle again.
C19_Witness ==
    \E t, a \in Calls :
        /\ kind[t] = "run" /\ g.result[t] = "TimeoutError" /\ body[t] = "none"
        /\ kind[a] = "run" /\ g.result[a] = "AbortError" /\ body[a] = "none"
        /\ kind[1] = "run" /\ body[1] = "returned"
        /\ t > 1 /\ a > 1
        /\ g.running = 0

\* C20 Pre-fired cancel: acquire called with a signal that has already fired
\* fails at once with AbortError and changes nothing else of the gate: no wait
\* node, no timer, no listener, the running count as it was, slot free or not.
C20_PreFiredCancel ==
    [][ /\ \A s \in Signals, t \in Timeouts :
              (aborted[s] /\ nIssued < MaxCalls) =>
                  acquire(g, nIssued + 1, t, s, aborted) =
                      [g EXCEPT !.result[nIssued + 1] = "AbortError"]
        /\ (nIssued' = nIssued + 1 /\ g'.result[nIssued'] = "AbortError") =>
              /\ \E s \in Signals : aborted[s]
              /\ g' = [g EXCEPT !.result[nIssued'] = "AbortError"]
              /\ ~InList(g', nIssued')
      ]_vars

\* C20 witness: the first acquire on an idle gate, made with a fired signal,
\* failed with AbortError and the gate is still idle.
C20_Witness ==
    /\ nIssued >= 1
    /\ g.result[1] = "AbortError"
    /\ g.token[1] = "none"
    /\ g.running = 0 /\ g.head = Null
    /\ \A c \in Calls : c > 1 => kind[c] = "none"

\* ------------------------------------------- claims on the wrapped iterator

\* the slots the iterator holds: the live tokens of its acquisitions
IterHeld == {c \in Calls : kind[c] = "iter" /\ g.token[c] = "live"}

\* this step is made by the iterator (a call of the consumer or a resumption)
IterStep == it' # it

\* C21 Acquire-before-pull: upstream is pulled only by a next() that holds the
\* slot acquired for that pull; while its acquire is pending, next() neither
\* pulls nor settles; once the slot is granted to it, it can proceed.
C21_AcquireBeforePull ==
    [][ /\ src'.pulls # src.pulls =>
              /\ it.pc = "acquiring"
              /\ g.result[it.cur] = "granted" /\ g.token[it.cur] = "live"
              /\ src'.pulls = src.pulls + 1
        /\ (it.pc = "acquiring" /\ g.result[it.cur] = "pending") =>
              it' = it /\ src' = src
        /\ (it'.pc = "acquiring" /\ g'.result[it'.cur] = "granted") => (ENABLED ItPull)'
      ]_vars

\* C21 witness: the iterator's acquire waited in the queue of a full gate, was
\* granted by another holder's release, and the pull is now in flight.
C21_Witness ==
    /\ it.pc = "pulling"
    /\ g.settled[it.cur]
    /\ g.token[it.cur] = "live"
    /\ src.pulls = 2

C23_FinishedIterator ==
    [][ /\ (it.pc = "pulling" /\ it'.last = "done") =>
              /\ g'.token[it.cur] = "released"
              /\ it'.done /\ it'.pending = Null
              /\ IterHeld' = {}
        /\ (it.done /\ IterStep) =>
              /\ it'.done
              /\ it'.acq = it.acq /\ nIssued' = nIssued /\ g' = g
              /\ src'.pulls = src.pulls
              /\ it'.pc = "idle"
              /\ it'.call = "next" => it'.last = "done"
      ]_vars

\* C23 witness: after return() closed the iterator early, a next() reported
\* done; the iterator made one acquisition only.
C23_Witness ==
    /\ it.end = "returned"
    /\ it.call = "next" /\ it.last = "done"
    /\ it.acq = 1 /\ src.pulls = 1
    /\ src.len = 2

\* C24 Iterator equivalence: the consumer is handed the upstream items 1, 2,
\* ... in order, each once; upstream is pulled once per next() that reached
\* it and never ahead of the consumer; an iteration ended by exhaustion has
\* delivered the whole sequence.
C24_Equivalence ==
    /\ \A i \in 1..Len(it.delivered) : it.delivered[i] = i
    /\ Len(it.delivered) = src.pos
    /\ src.pos <= src.len
    /\ src.pulls <= it.acq
    /\ it.pc = "idle" => src.pulls = it.acq
    /\ it.end = "exhausted" =>
          /\ Len(it.delivered) = src.len
          /\ src.pulls = src.len + 1

\* C24 witness: a two-item upstream was iterated to exhaustion.
C24_Witness ==
    /\ it.end = "exhausted"
    /\ src.len = 2
    /\ it.delivered = <<1, 2>>
    /\ it.pc = "idle"

\* ------------------------------------------------------------ the ContextCarrier

NumStoreContexts == 2
MaxCarrierRuns == 3
StoreContexts == 1..NumStoreContexts

\* store.run(context, fn): what store.getStore() returns inside fn, and in the caller once the call returned
storeRun(ambient, context) == [inside |-> context, after |-> ambient]

\* new ContextCarrier(fn, store), constructed where store.getStore() is ambient
NewCarrier(ambient) ==
    [pc |-> "carrier", capturedContext |-> ambient, executed |-> FALSE,
     ambient |-> ambient,      \* store.getStore() in the code that holds the carrier
     fn |-> "none",            \* the work function: none, running, ok, failed
     fnCalls |-> 0,            \* invocations of fn
     seen |-> NoContext,       \* store.getStore() inside fn
     at |-> NoContext,         \* store.getStore() where the run() that invoked fn was called
     runs |-> 0,               \* run() calls
     thrown |-> 0,             \* run() calls that failed with "already called"
     last |-> "none"]          \* how the latest run() call went: started, alreadyRun

\* fn is invoked where store.getStore() is inside; the caller goes on where it is after
invokeFn(cc, inside, after) ==
    [cc EXCEPT !.fn = "running", !.fnCalls = @ + 1, !.seen = inside, !.at = cc.ambient,
               !.ambient = after, !.runs = @ + 1, !.last = "started"]

\* the mutant of carrierRun: the executed flag is never set
carrierRunNoFlag(cc) ==
    IF cc.capturedContext = NoContext
    THEN invokeFn(cc, cc.ambient, cc.ambient)
    ELSE invokeFn(cc, storeRun(cc.ambient, cc.capturedContext).inside,
                      storeRun(cc.ambient, cc.capturedContext).after)

\* ContextCarrier.run()
carrierRun(cc) ==
    IF cc.executed
    THEN [cc EXCEPT !.runs = @ + 1, !.thrown = @ + 1, !.last = "alreadyRun"]
    ELSE LET c1 == [cc EXCEPT !.executed = TRUE]
         IN  IF c1.capturedContext = NoContext
             THEN invokeFn(c1, c1.ambient, c1.ambient)
             ELSE invokeFn(c1, storeRun(c1.ambient, c1.capturedContext).inside,
                               storeRun(c1.ambient, c1.capturedContext).after)

CarrierInit ==
    /\ cx \in {NewCarrier(a) : a \in {NoContext} \cup StoreContexts}
    /\ g = NewGate(1, Calls)
    /\ CallersIdle /\ WrapIdle /\ RetryIdle /\ BreakerIdle

\* the code that holds the carrier enters or leaves a store.run scope
CcAmbientChange(c) ==
    /\ cx.ambient # c
    /\ cx' = [cx EXCEPT !.ambient = c]
    /\ UNCHANGED <<gateVars, callVars, wrapVars, rt, cbVars>>

\* carrier.run() is called
CcRun ==
    /\ cx.runs < MaxCarrierRuns
    /\ cx' = carrierRun(cx)
    /\ UNCHANGED <<gateVars, callVars, wrapVars, rt, cbVars>>

\* the promise fn returned settles
CcFnSettles(ok) ==
    /\ cx.fn = "running"
    /\ cx' = [cx EXCEPT !.fn = IF ok THEN "ok" ELSE "failed"]
    /\ UNCHANGED <<gateVars, callVars, wrapVars, rt, cbVars>>

CarrierNext ==
    \/ \E c \in {NoContext} \cup StoreContexts : CcAmbientChange(c)
    \/ CcRun
    \/ \E ok \in BOOLEAN : CcFnSettles(ok)

CarrierSpec == CarrierInit /\ [][CarrierNext]_vars

\* a run() call that found the carrier unused
CarrierFirstRun == cx.runs < MaxCarrierRuns /\ ~cx.executed /\ cx'.runs = cx.runs + 1

\* a run() call that found the carrier used
CarrierLaterRun == cx.runs < MaxCarrierRuns /\ cx.executed /\ cx'.runs = cx.runs + 1

\* C25: run() executes fn with the context that was ambient when the carrier was constructed,
\* whatever is ambient where run() is called, and leaves the caller's ambient context as it was
C25_ScheduleTimeCapture ==
    [][CarrierFirstRun =>
          /\ cx'.fnCalls = 1
          /\ cx'.seen = cx.capturedContext
          /\ cx'.ambient = cx.ambient]_vars

\* a carrier constructed outside any context ran its fn under the context of the run() call
C25_Witness ==
    /\ cx.pc = "carrier"
    /\ cx.fnCalls = 1
    /\ cx.capturedContext = NoContext
    /\ cx.at \in StoreContexts
    /\ cx.seen = cx.at

\* C26: every run() after the first fails with the already-run error and does not invoke fn again,
\* whether the first invocation succeeded, failed or is still in flight
C26_SingleShot ==
    [][/\ cx.pc = "carrier" => cx'.fnCalls <= 1
       /\ CarrierLaterRun =>
             /\ cx'.last = "alreadyRun"
             /\ cx'.thrown = cx.thrown + 1
             /\ cx'.fnCalls = cx.fnCalls
             /\ cx'.fn = cx.fn
             /\ cx'.seen = cx.seen]_vars

\* a second run() failed while the first was in flight, and a third after it had settled
C26_Witness ==
    /\ cx.pc = "carrier"
    /\ cx.thrown = 2
    /\ cx.fn \in {"ok", "failed"}
    /\ cx.fnCalls = 1

\* ------------------------------------------------- the context-aware gate

\* a gate constructed with or without a store; no run() call was made
NewContextGate(store) ==
    [pc |-> "gate", store |-> store,
     ctx |-> [c \in Calls |-> NoContext],        \* store.getStore() where call c was made
     captured |-> [c \in Calls |-> NoContext],   \* capturedContext of call c
     seen |-> [c \in Calls |-> NoContext],       \* store.getStore() inside the fn of call c
     queued |-> [c \in Calls |-> FALSE],         \* the acquire of call c had to wait
     latest |-> NoContext]                       \* the value captured by the latest call

\* STEP 1 of run: this.store?.getStore()
captureContext(store, ambient) == IF store THEN ambient ELSE NoContext

\* the mutant of fnContext: the captured value is kept in one place shared by all calls
fnContextShared(c, x) ==
    IF x.store /\ x.latest # NoContext
    THEN storeRun(x.ctx[c], x.latest).inside
    ELSE x.ctx[c]

\* STEP 3 of run: store.getStore() inside fn; the code after the await runs in the context of its own call
fnContext(c, x) ==
    IF x.store /\ x.captured[c] # NoContext
    THEN storeRun(x.ctx[c], x.captured[c]).inside
    ELSE x.ctx[c]

ContextGateInit ==
    /\ CallersInit
    /\ cx \in {NewContextGate(s) : s \in BOOLEAN}
    /\ WrapIdle /\ RetryIdle /\ BreakerIdle

\* gate.run(fn, options) is called where store.getStore() is ambient: STEP 1 and STEP 2
CgRun(ambient, timeout, signal) ==
    /\ nIssued < MaxCalls
    /\ LET c == nIssued + 1
           g1 == acquire(g, c, timeout, signal, aborted)
       IN  /\ g' = g1
           /\ kind' = [kind EXCEPT ![c] = "run"]
           /\ cx' = [cx EXCEPT !.ctx[c] = ambient,
                               !.captured[c] = captureContext(cx.store, ambient),
                               !.latest = captureContext(cx.store, ambient),
                               !.queued[c] = g1.result[c] = "pending"]
    /\ nIssued' = nIssued + 1
    /\ UNCHANGED <<aborted, body, order, relCalls, relThrows, wrapVars, rt, cbVars>>

\* run resumes after its acquire: STEP 3, fn is invoked
CgStart(c) ==
    /\ kind[c] = "run"
    /\ g.result[c] = "granted"
    /\ body[c] = "none"
    /\ body' = [body EXCEPT ![c] = "started"]
    /\ order' = Append(order, c)
    /\ cx' = [cx EXCEPT !.seen[c] = fnContext(c, cx)]
    /\ UNCHANGED <<g, aborted, kind, nIssued, relCalls, relThrows, wrapVars, rt, cbVars>>

ContextGateNext ==
    \/ \E a \in {NoContext} \cup StoreContexts, t \in Timeouts : CgRun(a, t, NoSignal)
    \/ \E c \in Calls : CgStart(c)
    \/ \E c \in Calls, o \in {"returned", "threw"} : RunBodyEnd(c, o)
    \/ \E c \in Calls : TimerExpiry(c)

ContextGateSpec == ContextGateInit /\ [][ContextGateNext]_vars

\* C27: every fn executed through Gate.run observes the context that was ambient where its own run()
\* was called, never that of another task, however admitted and queued tasks interleave
C27_NoContextBleed ==
    \A c \in Calls : body[c] # "none" => cx.seen[c] = cx.ctx[c]

\* a task that had to wait ran after a task with another context was issued behind it
C27_Witness ==
    /\ cx.pc = "gate"
    /\ cx.store
    /\ \E c, d \in Calls :
          /\ c < d
          /\ cx.queued[c]
          /\ body[c] # "none"
          /\ kind[d] = "run"
          /\ Len(order) > 0 /\ order[Len(order)] = c
          /\ cx.ctx[c] \in StoreContexts
          /\ cx.ctx[d] \in StoreContexts
          /\ cx.ctx[c] # cx.ctx[d]
          /\ cx.seen[c] = cx.ctx[c]

\* C28: a failure that isFailure rejects is rethrown to the caller and leaves state, failures,
\* successes and lastFailureAt as they were, in CLOSED and in HALF_OPEN alike
C28_TransparentFailure ==
    [][ \A c \in BCalls : (SettleStep(c) /\ bc'[c].res = "benign") =>
            /\ cb'.state = cb.state
            /\ cb'.failures = cb.failures
            /\ cb'.successes = cb.successes
            /\ cb'.lastFailureAt = cb.lastFailureAt
            /\ cb'.lastStateChange = cb.lastStateChange
      ]_vars

\* a failure that isFailure rejects was rethrown by a HALF_OPEN breaker that had counted a failure
\* before, and by a CLOSED one with a failure on its count
C28_Witness ==
    \/ /\ cb.state = "HALF_OPEN"
       /\ hist.forces = 0
       /\ bc[1].res = "fail" /\ bc[2].res = "benign" /\ bc[3].pc = "new"
       /\ cb.lastFailureAt = 0 /\ now = 2
       /\ cb.successes = 0
    \/ /\ cb.state = "CLOSED"
       /\ hist.forces = 0
       /\ bc[1].res = "fail" /\ bc[2].res = "benign" /\ bc[3].pc = "new"
       /\ cb.failures = 1 /\ cb.failureThreshold = 2
       /\ cb.lastFailureAt = 0 /\ now = 1

\* ------------------------------ the Retrier around the circuit: () => circuit.run(work)

\* an error thrown by the work: no CircuitOpenError
WorkError == [state |-> "work", nextAttemptAt |-> 0, failures |-> 0]

\* error instanceof CircuitOpenError
isCircuitOpenError(error) == error.state \in {"OPEN", "HALF_OPEN"}

\* the mutant of respectCircuit: a circuit rejection is retried like any error
respectCircuitNever(error) == TRUE

respectCircuit(error) == ~isCircuitOpenError(error)

RetryCircuitInit ==
    /\ BreakerStart
    /\ g = NewGate(1, Calls)
    /\ CallersIdle /\ WrapIdle /\ CtxIdle
    /\ rt \in {NewRetry(m, FALSE, NoContext) : m \in 1..MaxAttempts}

\* the head of the loop for attempt r.attempt, whose fn calls circuit.run(work): the state check
\* of run(), and for a rejection the catch block of Retrier.run with isRetryable = respectCircuit
RcBeginAttempt(r) ==
    LET x == RtBeginAttempt(r, g, aborted) IN
    IF x.rt.pc # "attempt"
    THEN g' = x.gate /\ rt' = x.rt /\ UNCHANGED <<cb, bc, hist>>
    ELSE \E random \in Randoms :
         LET c  == NextCall(bc)
             c1 == stateGetter(cb, now)
             rejected == Rejects(c1)
             y  == IF rejected
                   THEN RtCatch(x.rt, x.gate, respectCircuit(CircuitOpenError(c1, c1.state)),
                                random, aborted)
                   ELSE x
         IN /\ g' = y.gate
            /\ rt' = y.rt
            /\ cb' = IF rejected THEN [c1 EXCEPT !.totalRejections = @ + 1]
                     ELSE IF c1.state = "HALF_OPEN" THEN [c1 EXCEPT !.probeInFlight = TRUE]
                     ELSE c1
            /\ bc' = [bc EXCEPT ![c] =
                        IF rejected THEN [@ EXCEPT !.pc = "rejected"]
                        ELSE [@ EXCEPT !.pc = "inflight", !.currentState = c1.state]]
            /\ hist' = [hist EXCEPT !.error = IF rejected THEN CircuitOpenError(c1, c1.state) ELSE @,
                                    !.probeOks = ProbeOksAfter(cb, cb', FALSE, @)]

\* the acquire of retryWithGate settles: rejected, or granted and attempt 1 begins
RcAcquired ==
    /\ rt.pc = "acquiring"
    /\ g.result[rt.tok] # "pending"
    /\ IF g.result[rt.tok] = "granted"
       THEN RcBeginAttempt([rt EXCEPT !.attempt = 1, !.parent = rt.ctx])
       ELSE /\ g' = g
            /\ rt' = [rt EXCEPT !.pc = "done", !.outcome = g.result[rt.tok]]
            /\ UNCHANGED <<cb, bc, hist>>
    /\ UNCHANGED <<aborted, kind, body, order, nIssued, relCalls, relThrows, wrapVars, cx, now>>

\* the backoff timer fires: the next attempt begins
RcSleepDone ==
    /\ rt.pc = "sleeping"
    /\ RcBeginAttempt([rt EXCEPT !.attempt = @ + 1])
    /\ UNCHANGED <<aborted, kind, body, order, nIssued, relCalls, relThrows, wrapVars, cx, now>>

\* the work settles with res: run() of the circuit settles, then the attempt of the retrier
RcWorkSettles(c, res) ==
    /\ rt.pc = "attempt"
    /\ bc[c].pc = "inflight"
    /\ cb' = SettleBreaker(cb, bc[c], res, now)
    /\ bc' = [bc EXCEPT ![c] = [pc |-> "done", currentState |-> "none", res |-> res]]
    /\ hist' = [hist EXCEPT !.streak = StreakAfter(cb, cb', res, @),
                            !.probeOks = ProbeOksAfter(cb, cb',
                                            res = "ok" /\ bc[c].currentState = "HALF_OPEN", @)]
    /\ \E random \in Randoms :
          LET x == IF res = "ok"
                   THEN RtFinish([rt EXCEPT !.payload = rt.attempt], g, "ok")
                   ELSE RtCatch(rt, g, respectCircuit(WorkError), random, aborted)
          IN g' = x.gate /\ rt' = x.rt
    /\ UNCHANGED <<aborted, kind, body, order, nIssued, relCalls, relThrows, wrapVars, cx, now>>

RetryCircuitNext ==
    \/ \E s \in Signals \cup {NoSignal} : RtStart(NoTimeout, s)
    \/ RcAcquired
    \/ RcSleepDone
    \/ \E c \in BCalls, res \in {"ok", "fail", "benign"} : RcWorkSettles(c, res)
    \/ \E s \in Signals : RtAbort(s)
    \/ RtSleepRejected
    \/ CbReadState
    \/ \E st \in {"CLOSED", "OPEN", "HALF_OPEN"} : CbForceState(st)
    \/ Tick

RetryCircuitSpec == RetryCircuitInit /\ [][RetryCircuitNext]_vars

\* C29: a Retrier with isRetryable = respectCircuit around circuit.run treats a CircuitOpenError as
\* terminal: it is propagated unwrapped on the attempt where it occurs, with no backoff sleep and no
\* further attempt, and the work is not invoked while the circuit reads OPEN
C29_CircuitOverridesRetry ==
    [][ /\ \A c \in BCalls :
              /\ (RunStep(c) /\ ReadsOpen) => bc'[c].pc = "rejected"
              /\ (RunStep(c) /\ bc'[c].pc = "rejected") =>
                    /\ isCircuitOpenError(hist'.error)
                    /\ rt'.pc = "done"
                    /\ rt'.outcome = "error"
                    /\ rt'.payload = rt'.attempt
                    /\ rt'.attempt = c
                    /\ rt'.sleeps = rt.sleeps
        /\ rt.pc = "done" => rt' = rt
      ]_vars

\* the first attempt failed and opened the circuit; after the backoff the second attempt was
\* rejected by the open circuit and the rejection ended the retrier, a third attempt being left
C29_Witness ==
    /\ rt.pc = "done"
    /\ rt.outcome = "error"
    /\ rt.maxAttempts = 3
    /\ rt.attempt = 2
    /\ rt.calls = 2
    /\ Len(rt.sleeps) = 1
    /\ hist.forces = 0
    /\ bc[1].res = "fail"
    /\ bc[2].pc = "rejected"
    /\ bc[3].pc = "new"
    /\ hist.error.state = "OPEN"
    /\ cb.state = "OPEN"

\* ------------------------------------------------- the backoff of the Retrier

MaxBaseDelay == 3    \* baseDelay goes up to this many half milliseconds
MaxMaxDelay == 5     \* maxDelay goes up to this many half milliseconds

\* this.jitter = Math.max(0, Math.min(1, options.jitter))
clampJitter(jitter) == MathMax(0, MathMin(1, jitter))

\* new Retrier(store, {maxAttempts, baseDelay, maxDelay, jitter}) inside retryWithGate
NewBackoffRetry(maxAttempts, baseDelay, maxDelay, jitter) ==
    [NewRetry(maxAttempts, FALSE, NoContext) EXCEPT !.baseDelay = baseDelay,
                                                    !.maxDelay = maxDelay,
                                                    !.jitter = clampJitter(jitter)]

BackoffInit ==
    /\ g = NewGate(1, Calls)
    /\ CallersIdle /\ WrapIdle /\ BreakerIdle /\ CtxIdle
    /\ rt \in {NewBackoffRetry(m, (Scale \div 2) * b, (Scale \div 2) * x, j) :
                  m \in 1..MaxAttempts, b \in 1..MaxBaseDelay, x \in 1..MaxMaxDelay, j \in -1..2}

BackoffNext ==
    \/ \E s \in Signals \cup {NoSignal} : RtStart(NoTimeout, s)
    \/ RtAcquired
    \/ RtAttemptSucceeds
    \/ \E retryable \in BOOLEAN : RtAttemptFails(retryable)
    \/ RtSleepDone
    \/ \E s \in Signals : RtAbort(s)
    \/ RtSleepRejected

BackoffSpec == BackoffInit /\ [][BackoffNext]_vars

\* this step arms the timer of a backoff sleep
SleepStep == Len(rt'.sleeps) = Len(rt.sleeps) + 1

\* min(baseDelay * 2^(n-1), maxDelay), in quarters of a millisecond
CappedDelay(r, n) == MathMin(r.baseDelay * Pow2(n - 1), r.maxDelay)

\* one sleep lies between two consecutive attempts, and none follows the final attempt, a success
\* or an unretryable error
OneSleepPerRetry ==
    /\ SleepStep =>
          /\ rt.pc = "attempt" /\ rt'.pc = "sleeping"
          /\ rt'.verdict
          /\ rt.attempt < rt.maxAttempts
    /\ rt'.pc = "attempt" =>
          /\ rt'.calls = rt'.attempt
          /\ Len(rt'.sleeps) = rt'.calls - 1
    /\ (rt'.pc = "done" /\ rt'.outcome \in {"ok", "error", "RetryExhaustedError"}) =>
          Len(rt'.sleeps) = rt'.calls - 1

\* C30, amended: with jitter 0 the sleep after the failed attempt n is min(baseDelay * 2^(n-1),
\* maxDelay) rounded to the nearest whole millisecond, a half going up; one sleep lies between two
\* consecutive attempts and none follows the final attempt, a success or an unretryable error
C30_BackoffRounded ==
    [][ /\ OneSleepPerRetry
        /\ (SleepStep /\ rt.jitter = 0) =>
              LET d == rt'.sleeps[Len(rt'.sleeps)]
                  m == CappedDelay(rt, rt.attempt)
              IN  /\ 0 - Scale <= 2 * (m - d * Scale)
                  /\ 2 * (m - d * Scale) < Scale
      ]_vars

\* with baseDelay 1.5 ms, maxDelay 2.5 ms and jitter 0 the two sleeps of three attempts took
\* 2 ms and 3 ms
C30_Witness ==
    /\ rt.pc = "attempt"
    /\ rt.attempt = 3
    /\ rt.jitter = 0
    /\ rt.baseDelay * 2 = 3 * Scale
    /\ rt.maxDelay * 2 = 5 * Scale
    /\ rt.sleeps = <<2, 3>>

\* C30 as stated: with jitter 0 the sleep after the failed attempt n is exactly
\* min(baseDelay * 2^(n-1), maxDelay); one sleep lies between two consecutive attempts and none
\* follows the final attempt, a success or an unretryable error
C30_BackoffExact ==
    [][ /\ OneSleepPerRetry
        /\ (SleepStep /\ rt.jitter = 0) =>
              rt'.sleeps[Len(rt'.sleeps)] * Scale = CappedDelay(rt, rt.attempt)
      ]_vars

\* ------------------------------------------------- settle attempts that come late

MaxStale == 2

\* a gate whose settled nodes still get the callbacks that were due in the same turn
RaceInit ==
    /\ CallersInit
    /\ WrapIdle /\ RetryIdle /\ BreakerIdle
    /\ cx = [pc |-> "race", stale |-> 0]

\* a callback of the settled node c runs after the one that settled it: the timer callback,
\* the abort listener, or the wrapped resolve
StaleCallback(c, callback) ==
    /\ g.settled[c]
    /\ cx.stale < MaxStale
    /\ g' = CASE callback = "timeout" -> onTimeout(g, c)
              [] callback = "abort"   -> onAbort(g, c)
              [] callback = "resolve" -> resolveNode(g, c)
    /\ cx' = [cx EXCEPT !.stale = @ + 1]
    /\ UNCHANGED <<aborted, callVars, wrapVars, rt, cbVars>>

RaceNext ==
    \/ \E t \in Timeouts, s \in Signals \cup {NoSignal} : Acquire("acquire", t, s)
    \/ \E c \in Calls : ReleaseToken(c)
    \/ \E c \in Calls : TimerExpiry(c)
    \/ \E s \in Signals : Abort(s)
    \/ \E c \in Calls, callback \in {"timeout", "abort", "resolve"} : StaleCallback(c, callback)

RaceSpec == RaceInit /\ [][RaceNext]_vars

\* the acquire of call c has its outcome
Settled(gt, c) == gt.result[c] \in {"granted", "TimeoutError", "AbortError"}

\* C31: each queued wait node gets exactly one outcome (granted, TimeoutError or AbortError): the
\* first settle attempt decides it, and a later attempt on the same node changes neither the
\* caller's result nor running nor the wait list
C31_SingleSettlement ==
    [][ /\ \A c \in Calls :
              /\ Settled(g, c) => g'.result[c] = g.result[c]
              /\ g.settled[c] => g'.settled[c]
              /\ g'.settled[c] => Settled(g', c)
              /\ g'.result[c] = "pending" <=> InList(g', c)
        /\ cx'.stale # cx.stale => g' = g
      ]_vars

\* a waiter with a timer and a cancel signal was granted its slot; the signal fired afterwards
\* and late callbacks ran on the settled node
C31_Witness ==
    /\ cx.pc = "race"
    /\ cx.stale = MaxStale
    /\ aborted[1]
    /\ \E c \in Calls : g.settled[c] /\ g.result[c] = "granted" /\ g.token[c] = "live"
    /\ \E c \in Calls : g.settled[c] /\ g.result[c] = "TimeoutError"

\* ------------------------------------------------- the phase of a RetryAbortedError

\* this step raises RetryAbortedError with phase backoff
BackoffAbortStep == rt.phase # "backoff" /\ rt'.phase = "backoff"

\* C32, amended: RetryAbortedError with phase backoff is raised where the fired signal is met at
\* the backoff sleep: when it fires during the sleep, and also when it fired while the attempt was
\* executing and that attempt then failed with a retryable error before the final attempt, in which
\* case the sleep rejects at once and no timer is armed
C32_BackoffPhase ==
    [][ /\ BackoffAbortStep =>
              /\ rt'.outcome = "RetryAbortedError"
              /\ rt'.abortAt = rt.attempt
              /\ rt'.calls = rt.calls
              /\ \/ rt.pc = "sleepRejected"
                 \/ /\ rt.pc = "attempt" /\ SignalFired
                    /\ rt'.verdict /\ rt.attempt < rt.maxAttempts
                    /\ rt'.sleeps = rt.sleeps
        /\ (AttemptFailsStep /\ SignalFired /\ rt'.verdict /\ rt.attempt < rt.maxAttempts) =>
              BackoffAbortStep
      ]_vars

\* the signal fired while attempt 1 was executing; the attempt failed and the run ended with
\* RetryAbortedError, phase backoff, without any sleep
C32_Witness ==
    /\ rt.outcome = "RetryAbortedError"
    /\ rt.phase = "backoff"
    /\ rt.abortAt = 1
    /\ rt.calls = 1
    /\ rt.sleeps = <<>>
    /\ rt.maxAttempts = 3

\* C32 as stated: RetryAbortedError with phase backoff is raised only when the signal fired while
\* the retrier was sleeping; a signal that fired while an attempt was executing is not reported
\* with phase backoff
C32_BackoffOnlyWhileSleeping ==
    [][ BackoffAbortStep => rt.pc = "sleepRejected" ]_vars

\* ------------------------------------------------- more claims on the gate

\* this step is an acquire (or run) call with a signal that has not fired
AcquireStep == nIssued' = nIssued + 1 /\ g'.result[nIssued'] # "AbortError"

\* C33 No barging: whenever the wait list is non-empty running equals the capacity; so an acquire
\* that arrives while waiters are queued is appended at the tail and takes no slot ahead of them
C33_NoBarging ==
    [][ /\ g'.head # Null => g'.running = g'.concurrency
        /\ (AcquireStep /\ g.head # Null) =>
              /\ g'.result[nIssued'] = "pending"
              /\ g'.tail = nIssued'
              /\ g'.prev[nIssued'] = g.tail
              /\ g'.head = g.head
              /\ g'.running = g.running
              /\ g'.token[nIssued'] = "none"
      ]_vars

\* after a release handed its slot on, two waiters are queued in the order of their arrival on a
\* full gate
C33_Witness ==
    /\ g.running = g.concurrency
    /\ \E n \in Calls : g.token[n] = "released"
    /\ \E a, b \in Calls : a < b /\ g.head = a /\ g.tail = b /\ g.next[a] = b

\* the release tokens that were handed to a caller and not yet invoked
HeldTokens(gt) == {n \in DOMAIN gt.token : gt.token[n] = "live" /\ gt.result[n] = "granted"}

\* C34 No leaked slot: running equals the number of release tokens handed to a caller and not yet
\* invoked; every node in the wait list is unsettled, so dispatch counts no slot for a waiter that
\* timed out or was cancelled, also when a grant races with a timeout or a cancel
C34_NoLeakedSlot ==
    /\ g.running = Cardinality(HeldTokens(g))
    /\ \A n \in Calls :
          /\ InList(g, n) => ~g.settled[n] /\ g.result[n] = "pending"
          /\ g.token[n] # "none" => g.result[n] = "granted"

\* a waiter timed out, a later waiter got the slot of a release, and late callbacks ran on
\* settled nodes of the full gate
C34_Witness ==
    /\ cx.pc = "race"
    /\ cx.stale > 0
    /\ g.running = g.concurrency
    /\ \E n, k \in Calls :
          /\ n < k
          /\ g.result[n] \in {"TimeoutError", "AbortError"} /\ g.settled[n]
          /\ g.result[k] = "granted" /\ g.settled[k] /\ g.token[k] = "live"
    /\ \E n \in Calls : g.token[n] = "released"

\* ------------------------------------------------- more claims on the circuit breaker

\* this step settles call c, admitted in CLOSED, after the breaker has left CLOSED
StaleSettles(c) ==
    SettleStep(c) /\ bc[c].currentState = "CLOSED" /\ cb.state \in {"OPEN", "HALF_OPEN"}

\* C35 as stated: the completion of a call admitted in CLOSED that finishes after the breaker
\* became OPEN or HALF_OPEN changes neither the state nor the success count nor lastFailureAt;
\* only the outcome of a probe, or forceState, moves the breaker out of HALF_OPEN
C35_OnlyProbesDecide ==
    [][ /\ \A c \in BCalls : StaleSettles(c) =>
              /\ cb'.state = cb.state
              /\ cb'.successes = cb.successes
              /\ cb'.lastFailureAt = cb.lastFailureAt
        /\ (cb.state = "HALF_OPEN" /\ cb'.state # "HALF_OPEN") =>
              ForceStep \/ \E c \in BCalls : ProbeSettles(c)
      ]_vars

\* two calls were admitted in CLOSED at time 0; the first failed and opened the breaker; the
\* failure of the second at time 1 moved lastFailureAt of the OPEN breaker, no probe having run
C35_Witness ==
    /\ cb.state = "OPEN"
    /\ hist.forces = 0
    /\ cb.failureThreshold = 1
    /\ cb.lastStateChange = 0
    /\ cb.lastFailureAt = 1
    /\ bc[1].res = "fail" /\ bc[2].res = "fail" /\ bc[3].pc = "new"

\* C36 as stated: after forceState(s) the state of the breaker reads s, for CLOSED, OPEN and
\* HALF_OPEN and after every history of calls; forceState(CLOSED) also resets failures and
\* successes to 0
C36_ForceStateTakesEffect ==
    [][ ForceStep =>
            /\ cb' = forceState(cb, cb'.state, now)
            /\ stateGetter(cb', now').state = cb'.state
            /\ cb'.state = "CLOSED" => cb'.failures = 0 /\ cb'.successes = 0
      ]_vars

\* a breaker that had counted a failure at time 0 was forced OPEN at time 2, the reset timeout of
\* 1 having passed: its state reads HALF_OPEN
C36_Witness ==
    /\ cb.state = "OPEN"
    /\ hist.forces = 1
    /\ cb.resetTimeout = 1
    /\ cb.lastFailureAt = 0
    /\ cb.lastStateChange = 2
    /\ now = 2
    /\ stateGetter(cb, now).state = "HALF_OPEN"

\* this step is a run() call rejected by a breaker that reads OPEN
OpenRejectStep ==
    \E c \in BCalls : RunStep(c) /\ bc'[c].pc = "rejected" /\ hist'.error.state = "OPEN"

\* C37 as stated: every CircuitOpenError raised while the breaker reads OPEN carries
\* nextAttemptAt = lastFailureAt + resetTimeout, and that time is strictly later than the time
\* of the rejection
C37_RejectionTiming ==
    [][ OpenRejectStep =>
            /\ cb.lastFailureAt # NullTime
            /\ hist'.error.nextAttemptAt = cb.lastFailureAt + cb.resetTimeout
            /\ hist'.error.nextAttemptAt > now
      ]_vars

\* a breaker without any failure was forced OPEN and rejected a call at time 2 with a
\* nextAttemptAt that is not in the future
C37_Witness ==
    /\ cb.state = "OPEN"
    /\ hist.forces = 1
    /\ cb.lastFailureAt = NullTime
    /\ cb.totalRejections > 0
    /\ hist.error.state = "OPEN"
    /\ hist.error.nextAttemptAt = cb.resetTimeout
    /\ now = 2
    /\ hist.error.nextAttemptAt < now

\* ------------------------------------------------- liveness of the waiters

\* every token holder eventually invokes its release: the holder of a token from acquire()
\* calls it, and the fn of an admitted Gate.run starts and settles
HoldersRelease ==
    \A c \in Calls :
        /\ WF_vars(ReleaseToken(c))
        /\ WF_vars(RunBodyStart(c))
        /\ WF_vars(\E o \in {"returned", "threw"} : RunBodyEnd(c, o))

GateLiveSpec == GateSpec /\ HoldersRelease

\* C38 Waiter liveness: if every token holder eventually invokes its release, every queued
\* waiter that neither times out nor is cancelled is eventually granted a slot
C38_WaiterLiveness ==
    \A c \in Calls : (g.result[c] = "pending") ~> (g.result[c] # "pending")

\* with all calls issued and all tokens given back, three waiters of a gate of capacity 1 were
\* granted from the wait list and none was rejected
C38_Witness ==
    /\ g.concurrency = 1
    /\ nIssued = MaxCalls
    /\ g.running = 0
    /\ \A c \in Calls : g.result[c] = "granted"
    /\ Cardinality({c \in Calls : g.settled[c]}) = MaxCalls - 1

\* C39 No probe lockout: probeInFlight is set exactly while a call admitted as
\* a HALF_OPEN probe is in flight; the settlement of a probe clears it
\* whether fn succeeded, failed with a qualifying error or failed with a
\* non-qualifying one; a run() that finds the breaker reading HALF_OPEN with no
\* probe in flight is admitted as the probe.
C39_NoProbeLockout ==
    [][ /\ cb'.probeInFlight <=> Probes' # {}
        /\ \A c \in BCalls :
              (SettleStep(c) /\ c \in Probes) =>
                  /\ bc'[c].res \in {"ok", "fail", "benign"}
                  /\ ~cb'.probeInFlight
        /\ \A c \in BCalls :
              (RunStep(c) /\ ReadsHalfOpen /\ Probes = {}) =>
                  /\ bc'[c].pc = "inflight"
                  /\ bc'[c].currentState = "HALF_OPEN"
                  /\ Probes' = {c}
                  /\ cb'.totalRejections = cb.totalRejections
      ]_vars

\* C39 witness: without any forceState, call 1 opened the breaker, call 2 was
\* the probe (call 3 was rejected while it ran) and ended with a non-qualifying
\* error, and call 4 was then admitted as the next probe.
C39_Witness ==
    /\ hist.forces = 0
    /\ cb.failureThreshold = 1
    /\ bc[1].res = "fail"
    /\ bc[2].res = "benign"
    /\ bc[3].pc = "rejected" /\ hist.error.state = "HALF_OPEN"
    /\ Probes = {4}
    /\ cb.probeInFlight

\* ------------------------------------------------- acquire with a timeout of 0 or less

\* the callers of a gate, with the options of each acquire kept on record
TimeoutInit ==
    /\ CallersInit
    /\ WrapIdle /\ RetryIdle /\ BreakerIdle
    /\ cx = [pc |-> "timeouts", given |-> [c \in Calls |-> NoTimeout]]

\* gate.acquire({timeout, signal}); the timeout passed is recorded
AcquireWith(timeout, signal) ==
    /\ nIssued < MaxCalls
    /\ LET c == nIssued + 1 IN
          /\ g' = acquire(g, c, timeout, signal, aborted)
          /\ kind' = [kind EXCEPT ![c] = "acquire"]
          /\ cx' = [cx EXCEPT !.given[c] = timeout]
    /\ nIssued' = nIssued + 1
    /\ UNCHANGED <<aborted, body, order, relCalls, relThrows, wrapVars, rt, cbVars>>

TimeoutNext ==
    \/ \E t \in Timeouts, s \in Signals \cup {NoSignal} : AcquireWith(t, s)
    \/ \E c \in Calls : ReleaseToken(c)
    \/ \E c \in Calls : TimerExpiry(c)
    \/ \E s \in Signals : Abort(s)

TimeoutSpec == TimeoutInit /\ [][TimeoutNext]_vars

\* call c was issued with a timeout that is given and is 0 or less
ZeroTimeout(given, c) == given[c].defined /\ given[c].ms <= 0

\* C40 Zero timeout means no timeout: an acquire with timeout <= 0 that finds
\* the gate full arms no timer and leaves the gate as the same acquire without
\* a timeout would; its waiter stays pending until it is granted or its own
\* cancel signal fires, and never ends with TimeoutError.
C40_ZeroTimeoutNoTimer ==
    [][ \A c \in Calls :
            ZeroTimeout(cx'.given, c) =>
                /\ ~g'.timer[c]
                /\ g'.result[c] # "TimeoutError"
                /\ (nIssued' = c /\ nIssued = c - 1 /\ g.running = g.concurrency
                      /\ g'.result[c] # "AbortError") =>
                       /\ g'.result[c] = "pending"
                       /\ g'.tail = c
                       /\ g' = acquire(g, c, NoTimeout, g'.listener[c], aborted)
                /\ (g.result[c] = "pending" /\ g'.result[c] # "pending") =>
                       \/ g'.result[c] = "granted"
                       \/ /\ g'.result[c] = "AbortError"
                          /\ g.listener[c] # NoSignal
                          /\ ~aborted[g.listener[c]] /\ aborted'[g.listener[c]]
      ]_vars

\* C40 witness: a waiter issued with timeout 0 is still pending after a later
\* waiter, issued with a positive timeout, has ended with TimeoutError.
C40_Witness ==
    \E c, d \in Calls :
        /\ c < d
        /\ cx.given[c] = [defined |-> TRUE, ms |-> 0]
        /\ g.result[c] = "pending"
        /\ cx.given[d].defined /\ cx.given[d].ms > 0
        /\ g.result[d] = "TimeoutError"

====
